---- MODULE Spec2Model ----
(***************************************************************************)
(* Model of the Vista3D MCP server (vista3d_mcp_server.py) and of its      *)
(* line-delimited JSON-RPC client (robust_mcp_client.py).                  *)
(*                                                                         *)
(* Conventions for Python values:                                          *)
(*   - a dict is a function whose domain is its set of keys;               *)
(*   - None is "None" where a string is expected, 0 where a request id is  *)
(*     expected (real ids start at 1), <<>> where a list is expected and   *)
(*     the record Null where a dict is expected;                           *)
(*   - a line of text on a pipe is a record [kind, value]: kind "obj" is a *)
(*     line that json.loads turns into the dict value, the other kinds are *)
(*     lines that are not a JSON object.                                   *)
(***************************************************************************)
EXTENDS Integers, Sequences, FiniteSets, TLC

(***************************************************************************)
(* Bounds of the model.                                                    *)
(***************************************************************************)
\* largest value of the millisecond clock read by generate_task_id
MaxClock == 1
\* number of lines the environment writes to the server's stdin
MaxFrames == 2

(***************************************************************************)
(* Python / JSON helpers.                                                  *)
(***************************************************************************)
None == "None"
NoneId == 0
Null == [null |-> TRUE]
EmptyDict == [k \in {} |-> k]

\* dict.get(key, default)
Get(d, k, default) == IF k \in DOMAIN d THEN d[k] ELSE default

\* truth value of a string-valued argument: None and "" are falsy
Truthy(s) == s # None /\ s # ""

\* d with key k set to v (d[k] = v)
SetKey(d, k, v) == [x \in (DOMAIN d) \cup {k} |-> IF x = k THEN v ELSE d[x]]

\* json.dumps of a dict gives one line; json.loads of that line gives the dict
JsonLine(value) == [kind |-> "obj", value |-> value]

\* a parser that takes the empty line for a document
JSONDecodeErrorUnlessBlank(line) == line.kind = "garbage"

\* json.loads(line.strip()) raises json.JSONDecodeError: the line is no JSON
\* document, or is empty
JSONDecodeError(line) == line.kind \in {"garbage", "blank"}


(***************************************************************************)
(* Strings: str.lower, str.upper, str.replace, substring test.             *)
(***************************************************************************)
UpperChars == "ABCDEFGHIJKLMNOPQRSTUVWXYZ"
LowerChars == "abcdefghijklmnopqrstuvwxyz"
DigitChars == "0123456789"

CharAt(s, i) == SubSeq(s, i, i)

\* position of the character c in s at or after i, 0 if there is none
RECURSIVE IndexOf(_, _, _)
IndexOf(c, s, i) ==
    IF i > Len(s) THEN 0 ELSE IF CharAt(s, i) = c THEN i ELSE IndexOf(c, s, i + 1)

\* the letters, each with its lower-case and its upper-case form
ToLower == [c \in {CharAt(UpperChars, i) : i \in 1..26} |->
               CharAt(LowerChars, IndexOf(c, UpperChars, 1))]
ToUpper == [c \in {CharAt(LowerChars, i) : i \in 1..26} |->
               CharAt(UpperChars, IndexOf(c, LowerChars, 1))]

RECURSIVE lower(_)
lower(s) ==
    IF s = "" THEN ""
    ELSE (IF Head(s) \in DOMAIN ToLower THEN ToLower[Head(s)] ELSE Head(s)) \o lower(Tail(s))

RECURSIVE upper(_)
upper(s) ==
    IF s = "" THEN ""
    ELSE (IF Head(s) \in DOMAIN ToUpper THEN ToUpper[Head(s)] ELSE Head(s)) \o upper(Tail(s))

\* s.replace(c, to) for a one-character c
RECURSIVE replace(_, _, _)
replace(s, c, to) ==
    IF s = "" THEN ""
    ELSE (IF Head(s) = c THEN to ELSE Head(s)) \o replace(Tail(s), c, to)

\* needle occurs in hay
Contains(hay, needle) ==
    \E i \in 1..(Len(hay) - Len(needle) + 1) : SubSeq(hay, i, i + Len(needle) - 1) = needle

\* number of occurrences of the character c in s
CountChar(s, c) == Cardinality({i \in 1..Len(s) : CharAt(s, i) = c})

(***************************************************************************)
(* Regular expressions, as re.search(pattern, desc, re.IGNORECASE) reads   *)
(* them.  Match(re, s, i) is the set of positions just after a match of re *)
(* that starts at position i of the lower-cased string s; literals and     *)
(* character sets are written in lower case.                               *)
(***************************************************************************)
Lit(str) == [t |-> "lit", s |-> str]
AnyOf(chars) == [t |-> "set", cs |-> chars]
Cat(res) == [t |-> "cat", rs |-> res]
Alt(res) == [t |-> "alt", rs |-> res]
Opt(re) == [t |-> "opt", r |-> re]
Star(re) == [t |-> "star", r |-> re]
NotAhead(re) == [t |-> "neg", r |-> re]
Bol == [t |-> "bol"]
Eol == [t |-> "eol"]
AnyChar == [t |-> "any"]
Lits(strs) == Alt([k \in DOMAIN strs |-> Lit(strs[k])])

RECURSIVE Match(_, _, _)
RECURSIVE MatchAll(_, _, _)
RECURSIVE MatchStar(_, _, _)

Match(re, s, i) ==
    CASE re.t = "lit" ->
           IF i + Len(re.s) - 1 <= Len(s) /\ SubSeq(s, i, i + Len(re.s) - 1) = re.s
             THEN {i + Len(re.s)} ELSE {}
      [] re.t = "set" ->
           IF i <= Len(s) /\ IndexOf(CharAt(s, i), re.cs, 1) # 0 THEN {i + 1} ELSE {}
      [] re.t = "any" -> IF i <= Len(s) THEN {i + 1} ELSE {}
      [] re.t = "bol" -> IF i = 1 THEN {i} ELSE {}
      [] re.t = "eol" -> IF i = Len(s) + 1 THEN {i} ELSE {}
      [] re.t = "alt" -> UNION {Match(re.rs[k], s, i) : k \in DOMAIN re.rs}
      [] re.t = "cat" -> MatchAll(re.rs, s, {i})
      [] re.t = "opt" -> {i} \cup Match(re.r, s, i)
      [] re.t = "star" -> MatchStar(re.r, s, {i})
      [] re.t = "neg" -> IF Match(re.r, s, i) = {} THEN {i} ELSE {}

MatchAll(res, s, from) ==
    IF res = <<>> \/ from = {} THEN from
    ELSE MatchAll(Tail(res), s, UNION {Match(Head(res), s, i) : i \in from})

MatchStar(re, s, from) ==
    LET more == from \cup UNION {Match(re, s, i) : i \in from}
    IN  IF more = from THEN from ELSE MatchStar(re, s, more)

\* re.search(pattern, desc) is not None, the case of the letters kept
SearchCaseSensitive(re, desc) == \E i \in 1..(Len(desc) + 1) : Match(re, desc, i) # {}

\* re.search(pattern, desc, re.IGNORECASE) is not None
Search(re, desc) ==
    LET s == lower(desc) IN \E i \in 1..(Len(s) + 1) : Match(re, s, i) # {}


(***************************************************************************)
(* Sequence Classifier: the six patterns of _classify_mr_sequence.         *)
(***************************************************************************)
\* [_\-\s]
SepChars == "_- \t"
Sep == AnyOf(SepChars)
\* [-_ ]
Dash == AnyOf("-_ ")
\* [a-zA-Z0-9] and, under IGNORECASE, [A-Z0-9]
AlNum == AnyOf(LowerChars \o DigitChars)
Digit == AnyOf(DigitChars)
StartOrSep == Alt(<<Bol, Sep>>)
SepOrEnd == Alt(<<Sep, Eol>>)

\* T1(W|WI)?
T1W == Cat(<<Lit("t1"), Opt(Lits(<<"w", "wi">>))>>)
\* T1[-_ ]?weighted
T1Weighted == Cat(<<Lit("t1"), Opt(Dash), Lit("weighted")>>)
\* MP[_\-\s]?RAGE
MPRage == Cat(<<Lit("mp"), Opt(Sep), Lit("rage")>>)
\* the sequence names the three T1 patterns share
T1Names == <<T1W, T1Weighted, Lit("t1w"), MPRage>>
           \o Lits(<<"spgr", "fspgr", "flash", "gre", "ffe", "tfe", "mp2rage", "bravo">>).rs
\* (POST|GAD|CONTRAST|CE|\+C)
ContrastWords == <<"post", "gad", "contrast", "ce", "+c">>
\* VIBE|LAVA|THRIVE|T1C|T1CE|MASTAR
ContrastNames == <<"vibe", "lava", "thrive", "t1c", "t1ce", "mastar">>
\* (T1W|T1WI|T1[-_ ]?WEIGHTED|T1)
T1Indicators == <<Lit("t1w"), Lit("t1wi"), T1Weighted, Lit("t1")>>

t1_pattern ==
    Cat(<<StartOrSep, NotAhead(Cat(<<Star(AnyChar), Lit("flair")>>)), Star(AlNum),
          Alt(T1Names \o Lits(ContrastNames).rs), SepOrEnd>>)

t1c_pattern ==
    Cat(<<StartOrSep, Star(AnyChar),
          Alt(<<Cat(<<Lits(ContrastWords), Star(AnyChar), Alt(T1Names)>>),
                Cat(<<Alt(T1Names), Star(AnyChar), Lits(ContrastWords)>>)>>
              \o Lits(ContrastNames).rs),
          SepOrEnd>>)

t1nc_pattern ==
    Cat(<<Bol, NotAhead(Cat(<<Star(AnyChar), Lits(ContrastWords \o ContrastNames)>>)),
          Star(AnyChar), Alt(<<Sep, Bol>>), Star(AlNum), Alt(T1Names), SepOrEnd>>)

t2_pattern ==
    Cat(<<Bol, NotAhead(Cat(<<Star(AnyChar), Alt(<<Lit("flair")>> \o T1Indicators)>>)),
          Star(AnyChar), Alt(<<Sep, Bol>>),
          Alt(<<Cat(<<Lit("t2"), Opt(Lits(<<"w", "wi">>))>>),
                Cat(<<Lit("t2"), Opt(Dash), Lit("weighted")>>),
                Cat(<<Lit("prop"), Opt(Lit("eller"))>>)>>
              \o Lits(<<"stir", "fse", "tse", "ciss", "space", "vista", "cube", "blade",
                        "fiesta", "truefisp", "bssfp", "drive">>).rs),
          SepOrEnd>>)

flair_pattern ==
    Cat(<<Bol, NotAhead(Cat(<<Star(AnyChar), Alt(T1Indicators)>>)), Star(AnyChar),
          Alt(<<Lit("flair"),
                Cat(<<Lit("t2"), Opt(Sep), Lit("flair")>>),
                Cat(<<Lit("flair"), Opt(Sep), Lit("t2")>>),
                Cat(<<Lit("ir"), Opt(Sep), Opt(Lits(<<"t2", "fse", "tse">>)), Opt(Sep), Lit("flair")>>),
                Cat(<<Lit("flairv"), Star(Digit)>>),
                Cat(<<Lit("fluid"), Opt(Sep), Lit("attenuated")>>)>>),
          SepOrEnd>>)

dwi_pattern ==
    Cat(<<StartOrSep, Star(AlNum),
          Alt(<<Cat(<<Lit("dwi"), Opt(Cat(<<Opt(Lit("_")), Lit("epi")>>))>>),
                Cat(<<Lit("epi"), Opt(AnyOf("_- ")), Lit("dwi")>>),
                Cat(<<Lit("diffusion"), Opt(Cat(<<Opt(Lit("_")), Lit("weighted")>>))>>),
                Cat(<<Lit("dti"), Opt(Cat(<<Lit("_"), Digit, Star(Digit), Lit("dir")>>))>>),
                Lit("adc")>>),
          SepOrEnd>>)

\* str.strip() of blanks
RECURSIVE strip(_)
strip(s) ==
    IF s = "" THEN ""
    ELSE IF Head(s) = " " THEN strip(Tail(s))
    ELSE IF CharAt(s, Len(s)) = " " THEN strip(SubSeq(s, 1, Len(s) - 1))
    ELSE s

InList(x, list) == \E k \in DOMAIN list : list[k] = x

\* a classifier that searches the T1NC pattern whatever the first two rules gave
ClassifyWithoutGuard(series_description) ==
    IF series_description = None \/ series_description = "" THEN <<>>
    ELSE LET desc == strip(series_description)
         IN  (IF Search(t1_pattern, desc) THEN <<"T1">> ELSE <<>>)
             \o (IF Search(t1c_pattern, desc) THEN <<"T1C">> ELSE <<>>)
             \o (IF Search(t1nc_pattern, desc) THEN <<"T1NC">> ELSE <<>>)
             \o (IF Search(t2_pattern, desc) THEN <<"T2">> ELSE <<>>)
             \o (IF Search(flair_pattern, desc) THEN <<"FLAIR">> ELSE <<>>)
             \o (IF Search(dwi_pattern, desc) THEN <<"DWI">> ELSE <<>>)

\* _classify_mr_sequence: the list of the tags whose rule matched
_classify_mr_sequence(series_description) ==
    IF series_description = None \/ series_description = "" THEN <<>>
    ELSE LET desc == strip(series_description)
             t1 == IF Search(t1_pattern, desc) THEN <<"T1">> ELSE <<>>
             t1c == IF Search(t1c_pattern, desc) THEN <<"T1C">> ELSE <<>>
             t1nc == IF t1 # <<>> /\ t1c = <<>> /\ Search(t1nc_pattern, desc)
                       THEN <<"T1NC">> ELSE <<>>
             t2 == IF Search(t2_pattern, desc) THEN <<"T2">> ELSE <<>>
             flair == IF Search(flair_pattern, desc) THEN <<"FLAIR">> ELSE <<>>
             dwi == IF Search(dwi_pattern, desc) THEN <<"DWI">> ELSE <<>>
         IN  t1 \o t1c \o t1nc \o t2 \o flair \o dwi

\* the classifier's answers for the series descriptions of the model's tables,
\* computed once
SeriesDescriptions == {"", "AX T1 POST GAD", "T1 MPRAGE", "SAG FLAIR", "CT T1 CHEST"}
ClassifierTable == [d \in SeriesDescriptions |-> _classify_mr_sequence(d)]
Classified(series_desc) ==
    IF series_desc \in DOMAIN ClassifierTable THEN ClassifierTable[series_desc]
    ELSE _classify_mr_sequence(series_desc)


(***************************************************************************)
(* Query Engine: query_patient_images.                                     *)
(***************************************************************************)
RECURSIVE Join(_, _)
Join(strs, sep) ==
    IF strs = <<>> THEN ""
    ELSE IF Len(strs) = 1 THEN strs[1]
    ELSE strs[1] \o sep \o Join(Tail(strs), sep)

\* the alias a column gets in the SELECT list
Alias(col) == replace(lower(col), " ", "_")

\* modality -> table; anything but MR, CT, PT reads the MR table
TableOf(modality) == IF modality \in {"MR", "CT", "PT"} THEN modality ELSE "MR"

\* one column against one filter key: exact, case-insensitive, or ignoring
\* underscores and case
ColumnMatches(filter_key, schema_column) ==
    \/ filter_key = schema_column
    \/ lower(filter_key) = lower(schema_column)
    \/ replace(lower(filter_key), "_", "") = replace(lower(schema_column), "_", "")

\* the loop over table_columns: the first column that matches by any of the
\* three rules, None if no column matches
RECURSIVE ResolveColumn(_, _)
ResolveColumn(filter_key, table_columns) ==
    IF table_columns = <<>> THEN None
    ELSE IF ColumnMatches(filter_key, Head(table_columns)) THEN Head(table_columns)
    ELSE ResolveColumn(filter_key, Tail(table_columns))

text_search_fields == {"PatientID", "PatientName", "SeriesDescription", "ProtocolName"}

NoFilters == [query_parts |-> <<>>, params |-> <<>>, columns |-> <<>>,
              requested_sequence_type |-> None]

\* a predicate on column with its bound parameter
AddPredicate(acc, column, value) ==
    IF column \in text_search_fields
      THEN [acc EXCEPT !.query_parts = Append(@, "AND " \o column \o " LIKE ?"),
                       !.params = Append(@, "%" \o value \o "%"),
                       !.columns = Append(@, column)]
      ELSE [acc EXCEPT !.query_parts = Append(@, "AND " \o column \o " = ?"),
                       !.params = Append(@, value),
                       !.columns = Append(@, column)]

\* ApplyFilter with an unresolved key forwarded into the statement
ApplyFilterForwardingKey(acc, filter_key, value, table_columns) ==
    LET matched_column == ResolveColumn(filter_key, table_columns)
    IN  IF filter_key = "sequence_type" THEN [acc EXCEPT !.requested_sequence_type = value]
        ELSE IF Truthy(matched_column) THEN AddPredicate(acc, matched_column, value)
        ELSE AddPredicate(acc, filter_key, value)

\* the body of the loop over filters.items(): the reserved key is set aside, a
\* key that resolves adds a predicate and a parameter, any other key is dropped
ApplyFilter(acc, filter_key, value, table_columns) ==
    LET matched_column == ResolveColumn(filter_key, table_columns)
    IN  IF filter_key = "sequence_type" THEN [acc EXCEPT !.requested_sequence_type = value]
        ELSE IF Truthy(matched_column) THEN AddPredicate(acc, matched_column, value)
        ELSE acc

\* the loop over filters.items(): a filter is a record [key, value]
RECURSIVE ApplyFilters(_, _, _)
ApplyFilters(filters, table_columns, acc) ==
    IF filters = <<>> THEN acc
    ELSE ApplyFilters(Tail(filters), table_columns,
                      ApplyFilter(acc, Head(filters).key, Head(filters).value, table_columns))

\* the text handed to cursor.execute: base_query, the predicates, the ordering
FinalQuery(table, table_columns, query_parts) ==
    LET select_columns == [k \in DOMAIN table_columns |->
                              table_columns[k] \o " as " \o Alias(table_columns[k])]
        base_query == "\n            SELECT DISTINCT \n                "
                      \o Join(select_columns, ", ")
                      \o "\n            FROM " \o table \o " \n            WHERE 1=1\n            "
    IN  base_query \o Join(query_parts, " ") \o " ORDER BY StudyDate DESC, SeriesDate DESC"

(***************************************************************************)
(* The database engine, as far as the generated statements use it.  A      *)
(* table is [columns, rows]; a row is a function from the column names.    *)
(***************************************************************************)
\* the table's column an identifier names (identifiers ignore case), None if none
RECURSIVE DbColumn(_, _)
DbColumn(name, columns) ==
    IF columns = <<>> THEN None
    ELSE IF lower(Head(columns)) = lower(name) THEN Head(columns)
    ELSE DbColumn(name, Tail(columns))

CharRank(c) == IndexOf(c, DigitChars \o UpperChars \o LowerChars, 1)

\* a < b in the byte order of text values
RECURSIVE StrLess(_, _)
StrLess(a, b) ==
    IF b = "" THEN FALSE
    ELSE IF a = "" THEN TRUE
    ELSE IF CharRank(Head(a)) # CharRank(Head(b)) THEN CharRank(Head(a)) < CharRank(Head(b))
    ELSE StrLess(Tail(a), Tail(b))

\* "column LIKE ?" and "column = ?" on one row, the parameter bound to ?
Holds(row, column, query_part, param) ==
    LET cell == row[column]
    IN  IF cell = None THEN FALSE
        ELSE IF Contains(query_part, " LIKE ?")
          \* the parameter is %value%: a substring test that ignores case
          THEN Contains(lower(cell), lower(SubSeq(param, 2, Len(param) - 1)))
        ELSE cell = param

\* ORDER BY StudyDate DESC, SeriesDate DESC
Before(r1, r2, studyDate, seriesDate) ==
    \/ StrLess(r2[studyDate], r1[studyDate])
    \/ r1[studyDate] = r2[studyDate] /\ StrLess(r2[seriesDate], r1[seriesDate])

RECURSIVE InsertRow(_, _, _, _)
InsertRow(row, sorted, studyDate, seriesDate) ==
    IF sorted = <<>> THEN <<row>>
    ELSE IF Before(row, Head(sorted), studyDate, seriesDate) THEN <<row>> \o sorted
    ELSE <<Head(sorted)>> \o InsertRow(row, Tail(sorted), studyDate, seriesDate)

RECURSIVE SortRows(_, _, _)
SortRows(rows, studyDate, seriesDate) ==
    IF rows = <<>> THEN <<>>
    ELSE InsertRow(Head(rows), SortRows(Tail(rows), studyDate, seriesDate), studyDate, seriesDate)

\* WHERE 1=1 AND ... : every predicate holds on the row
Satisfies(row, dbtable, filtered) ==
    \A k \in DOMAIN filtered.columns :
        Holds(row, DbColumn(filtered.columns[k], dbtable.columns),
              filtered.query_parts[k], filtered.params[k])

RECURSIVE SelectRows(_, _, _)
SelectRows(rows, dbtable, filtered) ==
    IF rows = <<>> THEN <<>>
    ELSE (IF Satisfies(Head(rows), dbtable, filtered) THEN <<Head(rows)>> ELSE <<>>)
         \o SelectRows(Tail(rows), dbtable, filtered)

\* cursor.execute(final_query, params); cursor.fetchall(): [error, rows], the
\* rows keyed by the aliases of the SELECT list
Execute(dbtable, table_columns, filtered) ==
    LET known(name) == DbColumn(name, dbtable.columns) # None
        studyDate == DbColumn("StudyDate", dbtable.columns)
        seriesDate == DbColumn("SeriesDate", dbtable.columns)
        project(row) == [a \in {Alias(table_columns[k]) : k \in DOMAIN table_columns} |->
                            LET k == CHOOSE k \in DOMAIN table_columns : Alias(table_columns[k]) = a
                            IN  row[DbColumn(table_columns[k], dbtable.columns)]]
    IN  IF \E k \in DOMAIN table_columns : ~known(table_columns[k])
          THEN [error |-> "no such column", rows |-> <<>>]
        ELSE IF \E k \in DOMAIN filtered.columns : ~known(filtered.columns[k])
          THEN [error |-> "no such column", rows |-> <<>>]
        ELSE IF studyDate = None \/ seriesDate = None
          THEN [error |-> "no such column", rows |-> <<>>]
        ELSE LET sorted == SortRows(SelectRows(dbtable.rows, dbtable, filtered), studyDate, seriesDate)
             IN  [error |-> None, rows |-> [k \in DOMAIN sorted |-> project(sorted[k])]]


(***************************************************************************)
(* query_patient_images: the rows after the statement has run.             *)
(***************************************************************************)
\* the first key whose lower-case form is name, None if there is none
RECURSIVE FirstKey(_, _)
FirstKey(keys, name) ==
    IF keys = <<>> THEN None
    ELSE IF lower(Head(keys)) = name THEN Head(keys)
    ELSE FirstKey(Tail(keys), name)

\* the last key whose lower-case form is one of names, None if there is none
RECURSIVE LastKey(_, _)
LastKey(keys, names) ==
    IF keys = <<>> THEN None
    ELSE IF lower(keys[Len(keys)]) \in names THEN keys[Len(keys)]
    ELSE LastKey(SubSeq(keys, 1, Len(keys) - 1), names)

\* row[key] or ""
CellOrEmpty(row, key) == IF key = None THEN "" ELSE IF row[key] = None THEN "" ELSE row[key]

\* the if / elif chain that decides whether a classified row is filtered out
FilteredOut(requested_type, classified_sequences) ==
    IF ~InList(requested_type, classified_sequences)
      THEN IF requested_type = "T1_CONTRAST" /\ ~InList("T1C", classified_sequences) THEN TRUE
           ELSE IF requested_type = "T1_NO_CONTRAST" /\ ~InList("T1NC", classified_sequences) THEN TRUE
           ELSE IF ~InList(requested_type, classified_sequences) THEN TRUE
           ELSE FALSE
      ELSE FALSE

\* a loop body that classifies and narrows whatever the table is
ProcessRowOfAnyTable(row, keys, requested_sequence_type, table) ==
    LET series_desc == CellOrEmpty(row, FirstKey(keys, "series_description"))
        classified_sequences ==
            IF Truthy(requested_sequence_type) THEN Classified(series_desc) ELSE <<>>
    IN  [keep |-> ~(Truthy(requested_sequence_type)
                    /\ FilteredOut(upper(requested_sequence_type), classified_sequences)),
         result |-> IF table = "MR"
                      THEN SetKey(row, "classified_sequences", classified_sequences)
                      ELSE row]

\* the body of the loop over rows: [keep, result]
ProcessRow(row, keys, requested_sequence_type, table) ==
    LET narrowing == Truthy(requested_sequence_type) /\ table = "MR"
        series_desc == CellOrEmpty(row, FirstKey(keys, "series_description"))
        classified_sequences == IF narrowing THEN Classified(series_desc) ELSE <<>>
        patient_id_val == CellOrEmpty(row, LastKey(keys, {"patientid", "patient_id"}))
        series_instance_uid_val ==
            CellOrEmpty(row, LastKey(keys, {"seriesinstanceuid", "series_instance_uid"}))
        base == "C:\\ARTDaemon\\Segman\\dcm2nifti\\" \o patient_id_val \o "\\"
                \o series_instance_uid_val
        withPaths == IF patient_id_val # "" /\ series_instance_uid_val # ""
                       THEN SetKey(SetKey(row, "input_file", base \o "\\image.nii.gz"),
                                   "output_directory", base \o "\\Vista3D\\")
                       ELSE row
        result == IF table = "MR"
                    THEN SetKey(withPaths, "classified_sequences", classified_sequences)
                    ELSE withPaths
    IN  [keep |-> ~(narrowing /\ FilteredOut(upper(requested_sequence_type), classified_sequences)),
         result |-> result]

RECURSIVE ProcessRows(_, _, _, _)
ProcessRows(rows, keys, requested_sequence_type, table) ==
    IF rows = <<>> THEN <<>>
    ELSE LET r == ProcessRow(Head(rows), keys, requested_sequence_type, table)
         IN  (IF r.keep THEN <<r.result>> ELSE <<>>)
             \o ProcessRows(Tail(rows), keys, requested_sequence_type, table)

ErrorList(message) == <<[error |-> message]>>
NotExecuted == [executed |-> FALSE, final_query |-> "", params |-> <<>>]

\* query_patient_images(modality, filters) on a database db = [exists, tables]
\* with the schema file schema = [loaded, tables]: the returned list, and the
\* statement and parameters handed to cursor.execute
query_patient_images(modality, filters, db, schema) ==
    LET table == TableOf(modality)
    IN  IF ~db.exists
          THEN [value |-> ErrorList("Database not found at rtplandb.db"), sql |-> NotExecuted]
        ELSE IF ~schema.loaded
          THEN [value |-> ErrorList("Could not load schema"), sql |-> NotExecuted]
        ELSE IF table \notin DOMAIN schema.tables
          THEN [value |-> ErrorList("Table " \o table \o " not found in schema"), sql |-> NotExecuted]
        \* schema["tables"][table]["columns"] raises KeyError, caught by except Exception
        ELSE IF table \in Get(schema, "no_columns", {})
          THEN [value |-> ErrorList("Unexpected error: 'columns'"), sql |-> NotExecuted]
        ELSE
          LET table_columns == schema.tables[table]
              filtered == ApplyFilters(filters, table_columns, NoFilters)
              final_query == FinalQuery(table, table_columns, filtered.query_parts)
              sql == [executed |-> TRUE, final_query |-> final_query, params |-> filtered.params]
              keys == [k \in DOMAIN table_columns |-> Alias(table_columns[k])]
          IN  IF table \notin DOMAIN db.tables
                THEN [value |-> ErrorList("Database query failed: no such table: " \o table),
                      sql |-> sql]
              ELSE LET fetched == Execute(db.tables[table], table_columns, filtered)
                   IN  IF fetched.error # None
                         THEN [value |-> ErrorList("Database query failed: " \o fetched.error),
                               sql |-> sql]
                         ELSE [value |-> ProcessRows(fetched.rows, keys,
                                                     filtered.requested_sequence_type, table),
                               sql |-> sql]


(***************************************************************************)
(* Task Store: paths and the three locations.                              *)
(***************************************************************************)
\* self.vista3d_tasks_path: <tasks_base_path>/Vista3D
vista3d_tasks_path == "tasks-live/Vista3D"
\* self.vista3d_processed_path: tasks-live replaced by tasks-history, /Vista3d
vista3d_processed_path == "tasks-history/Vista3d"
\* the daemon's location for documents of failed tasks
failed_path == "tasks-history/failed"

PathJoin(dir, name) == dir \o "/" \o name

\* generate_task_id: f"{prefix}_{timestamp}", timestamp the millisecond clock
generate_task_id(prefix, clock) == prefix \o "_" \o ToString(clock)

(***************************************************************************)
(* Task construction.                                                      *)
(***************************************************************************)
\* the optional fields of a task document: included only if truthy
WithOptional(task, key, value) == IF Truthy(value) THEN SetKey(task, key, value) ELSE task

\* the loop over additional_points: a point is appended to the list its type
\* names; a point whose type is neither "positive" nor "negative" is skipped
RECURSIVE AppendPoints(_, _)
AppendPoints(prompt, points) ==
    IF points = <<>> THEN prompt
    ELSE LET point == Head(points)
             next == IF point.type = "positive"
                       THEN [prompt EXCEPT !.positive_points = Append(@, point.coordinates)]
                     ELSE IF point.type = "negative"
                       THEN [prompt EXCEPT !.negative_points = Append(@, point.coordinates)]
                     ELSE prompt
         IN  AppendPoints(next, Tail(points))

create_vista3d_task(point_coordinates, input_file, output_directory, point_type, additional_points, patient_id, series_uid, clock) ==
    LET task_id == generate_task_id("vista3d_point", clock)
        prompt == [target_output_label |-> 1,
                   positive_points |-> IF point_type = "positive" THEN <<point_coordinates>> ELSE <<>>,
                   negative_points |-> IF point_type = "negative" THEN <<point_coordinates>> ELSE <<>>]
        task == [task_id |-> task_id,
                 input_file |-> input_file,
                 output_directory |-> output_directory,
                 segmentation_type |-> "point",
                 segmentation_prompts |-> <<AppendPoints(prompt, additional_points)>>,
                 modality |-> "MR"]
    IN  WithOptional(WithOptional(task, "patientId", patient_id), "seriesInstanceUID", series_uid)

create_full_body_task(input_file, output_directory, description, patient_id, series_uid, clock) ==
    LET task_id == generate_task_id("full_body", clock)
        task == [task_id |-> task_id,
                 input_file |-> input_file,
                 output_directory |-> output_directory,
                 segmentation_type |-> "full"]
    IN  WithOptional(WithOptional(WithOptional(task, "description", description),
                                  "patientId", patient_id), "seriesInstanceUID", series_uid)

(***************************************************************************)
(* Task Store operations.  fs is the filesystem: a function from the paths *)
(* of the existing files to their contents.                                *)
(***************************************************************************)
Exists(fs, path) == path \in DOMAIN fs

\* submit_task: writes <vista3d_tasks_path>/<task_id>.tsk; can_write is whether
\* open(..., 'w') and the dump succeed (permission, disk)
submit_task(task, fs, can_write) ==
    LET filename == task.task_id \o ".tsk"
        task_file_path == PathJoin(vista3d_tasks_path, filename)
    IN  IF can_write
          THEN [raised |-> FALSE, value |-> task_file_path,
                files |-> SetKey(fs, task_file_path, JsonLine(task))]
          ELSE [raised |-> TRUE, value |-> "Failed to submit task: " \o task_file_path,
                files |-> fs]

\* a processed branch that never opens the sidecar
ProcessedStatusWithoutSidecar(task_id, fs) ==
    [status |-> "processed", task_id |-> task_id,
     processed_file |-> PathJoin(vista3d_processed_path, task_id \o ".json")]

\* the processed branch of check_task_status: the sidecar is attached when it
\* loads; a load or lookup failure leaves result_error
ProcessedStatus(task_id, fs) ==
    LET processed_file == PathJoin(vista3d_processed_path, task_id \o ".json")
        result_file == PathJoin(vista3d_processed_path, task_id \o "_result.json")
        status == [status |-> "processed", task_id |-> task_id, processed_file |-> processed_file]
    IN  IF ~Exists(fs, result_file) THEN status
        ELSE LET content == fs[result_file]
             IN  IF content.kind = "obj"
                   THEN LET withResult == SetKey(status, "result", content.value)
                        IN  IF "output_mask" \in DOMAIN content.value
                              THEN SetKey(withResult, "output_mask", content.value.output_mask)
                              ELSE withResult
                 ELSE IF content.kind = "nonobj"
                   \* json.load gives a number: result is set, then the "in" test raises
                   THEN SetKey(SetKey(status, "result", "number"), "result_error", "not iterable")
                 ELSE SetKey(status, "result_error", "JSONDecodeError")

check_task_status(task_id, fs) ==
    LET pending_file == PathJoin(vista3d_tasks_path, task_id \o ".tsk")
        processed_file == PathJoin(vista3d_processed_path, task_id \o ".json")
    IN  IF Exists(fs, pending_file)
          THEN [status |-> "pending", task_id |-> task_id,
                message |-> "Task is queued for processing"]
        ELSE IF Exists(fs, processed_file)
          THEN ProcessedStatus(task_id, fs)
        ELSE [status |-> "not_found", task_id |-> task_id,
              message |-> "Task not found in any location"]

(***************************************************************************)
(* State.                                                                  *)
(***************************************************************************)
VARIABLES
    files,        \* the filesystem under the task base paths: path -> content
    now,          \* the millisecond clock
    ret,          \* Task Store: what the last operation returned, until the daemon acts
    submitted,    \* Task Store: the last submit_task, until any other step
    daemon,       \* number of steps the external daemon has taken
    query,        \* Query Engine: the last query_patient_images call and its outcome
    stdin,        \* server: the lines written to its standard input and not yet read
    stdout,       \* server: every line written to its standard output, in order
    pc,           \* server: where run is: "read", "handle", "print", "stopped"
    request,      \* server: run's local variable request
    response,     \* server: the response run is about to print
    inbox,        \* history: every line ever written to the server's standard input
    answered,     \* history: for each line of stdout, the index in inbox of the line
                  \* run was serving when it printed it (0: not printed by run)
    stderr,       \* server: every line written to its standard error, in order
    stderr_read,  \* number of lines of stderr that have left the pipe
    piped,        \* whether the server's stdout and stderr are pipes held by a client
    process,      \* client: self.process: "none", "running", "exited"
    request_id,   \* client: self.request_id
    output_queue, \* client: self.output_queue
    stdout_read,  \* client: number of lines of stdout _read_stdout has taken
    call,         \* client: the send_request call in progress or just ended
    probe         \* a check_task_status call that runs one filesystem probe at a time

storeVars == <<files, now, ret, submitted, daemon>>
queryVars == <<query>>
probeVars == <<probe>>
serverVars == <<stdin, stdout, pc, request, response, inbox, answered>>
errVars == <<stderr, stderr_read, piped>>
clientVars == <<process, request_id, output_queue, stdout_read, call>>
vars == <<storeVars, queryVars, probeVars, serverVars, errVars, clientVars>>

NoRet == [op |-> "none"]
NoSubmit == [task_id |-> None, path |-> None]
NoQuery == [called |-> FALSE]
Unbound == [kind |-> "unbound"]
NoResponse == EmptyDict
NoCall == [state |-> "idle"]
NoProbe == [state |-> "idle"]

\* the server before its first line, and a client that has started nothing
ServerAtStart ==
    /\ stdin = <<>>
    /\ stdout = <<>>
    /\ pc = "read"
    /\ request = Unbound
    /\ response = NoResponse
    /\ inbox = <<>>
    /\ answered = <<>>
    /\ stderr = <<>>
    /\ stderr_read = 0
    /\ piped = FALSE

ClientAtStart ==
    /\ process = "none"
    /\ request_id = 0
    /\ output_queue = <<>>
    /\ stdout_read = 0
    /\ call = NoCall

\* tasks of an earlier run that the daemon has dealt with
OldProcessedId == "vista3d_point_old"
OldFailedId == "full_body_old"
\* a processed task the daemon wrote no result document for
OldBareId == "full_body_bare"
InitialFiles ==
    LET processed_file == PathJoin(vista3d_processed_path, OldProcessedId \o ".json")
        result_file == PathJoin(vista3d_processed_path, OldProcessedId \o "_result.json")
        failed_file == PathJoin(failed_path, OldFailedId \o ".json")
        bare_file == PathJoin(vista3d_processed_path, OldBareId \o ".json")
    IN  [path \in {processed_file, result_file, failed_file, bare_file} |->
            IF path = result_file THEN JsonLine([output_mask |-> "mask.nii.gz"])
            ELSE IF path = processed_file THEN JsonLine([task_id |-> OldProcessedId])
            ELSE IF path = bare_file THEN JsonLine([task_id |-> OldBareId])
            ELSE JsonLine([task_id |-> OldFailedId])]

Init ==
    /\ files = InitialFiles
    /\ now = 0
    /\ ret = NoRet
    /\ submitted = NoSubmit
    /\ daemon = 0
    /\ probe = NoProbe
    /\ query = NoQuery
    /\ ServerAtStart
    /\ ClientAtStart

(***************************************************************************)
(* SpecStore: the Task Store's operations called directly, with the        *)
(* external daemon writing and removing documents in between.              *)
(***************************************************************************)
\* number of filesystem steps of the external daemon
MaxDaemon == 1

Prefixes == {"vista3d_point", "full_body"}
\* the ids generate_task_id can produce within the clock's range
GeneratedIds == {generate_task_id(p, t) : p \in Prefixes, t \in 0..MaxClock}
\* a task id no submission produced
UnknownId == "vista3d_point_unknown"
StatusIds == GeneratedIds \cup {UnknownId, OldProcessedId, OldFailedId, OldBareId}

\* the contents a result sidecar can have
SidecarContents ==
    { JsonLine([output_mask |-> "mask.nii.gz"]), JsonLine([labels |-> "1"]),
      [kind |-> "garbage", value |-> EmptyDict], [kind |-> "nonobj", value |-> EmptyDict] }

Remove(fs, path) == [p \in (DOMAIN fs) \ {path} |-> fs[p]]

\* create_*_task with a generated id, then submit_task
StoreSubmit ==
    \E kind \in {"point", "full"}, t \in now..MaxClock, can_write \in BOOLEAN :
        LET task == IF kind = "point"
                      THEN create_vista3d_task(<<100, 100, 50>>, "in.nii.gz", "out", "positive",
                                               <<>>, None, None, t)
                      ELSE create_full_body_task("in.nii.gz", "out", None, None, None, t)
            r == submit_task(task, files, can_write)
        IN  /\ now' = t
            /\ files' = r.files
            /\ ret' = [op |-> "submit_task", task_id |-> task.task_id,
                       raised |-> r.raised, value |-> r.value]
            /\ submitted' = IF r.raised THEN NoSubmit
                            ELSE [task_id |-> task.task_id, path |-> r.value]
            /\ UNCHANGED <<daemon, queryVars, probeVars, errVars, serverVars, clientVars>>

\* a status probe that takes the pending document of the task away
StoreCheckMovingDocument ==
    \E task_id \in StatusIds :
        /\ ret' = [op |-> "check_task_status", task_id |-> task_id,
                   raised |-> FALSE, value |-> check_task_status(task_id, files),
                   after |-> submitted]
        /\ submitted' = NoSubmit
        /\ files' = Remove(files, PathJoin(vista3d_tasks_path, task_id \o ".tsk"))
        /\ UNCHANGED <<now, daemon, queryVars, probeVars, errVars, serverVars, clientVars>>

\* check_task_status(task_id)
StoreCheck ==
    \E task_id \in StatusIds :
        /\ ret' = [op |-> "check_task_status", task_id |-> task_id,
                   raised |-> FALSE, value |-> check_task_status(task_id, files),
                   after |-> submitted]
        /\ submitted' = NoSubmit
        /\ UNCHANGED <<files, now, daemon, queryVars, probeVars, errVars, serverVars, clientVars>>

\* the daemon writes the document of a task it found pending to the processed
\* or to the failed location
DaemonCopy ==
    \E task_id \in GeneratedIds, dir \in {vista3d_processed_path, failed_path} :
        /\ daemon < MaxDaemon
        /\ Exists(files, PathJoin(vista3d_tasks_path, task_id \o ".tsk"))
        /\ files' = SetKey(files, PathJoin(dir, task_id \o ".json"),
                           files[PathJoin(vista3d_tasks_path, task_id \o ".tsk")])
        /\ daemon' = daemon + 1
        /\ submitted' = NoSubmit
        /\ ret' = NoRet
        /\ UNCHANGED <<now, queryVars, probeVars, errVars, serverVars, clientVars>>

\* the daemon removes a pending document
DaemonUnlink ==
    \E task_id \in GeneratedIds :
        /\ daemon < MaxDaemon
        /\ Exists(files, PathJoin(vista3d_tasks_path, task_id \o ".tsk"))
        /\ files' = Remove(files, PathJoin(vista3d_tasks_path, task_id \o ".tsk"))
        /\ daemon' = daemon + 1
        /\ submitted' = NoSubmit
        /\ ret' = NoRet
        /\ UNCHANGED <<now, queryVars, probeVars, errVars, serverVars, clientVars>>

\* the daemon writes the result sidecar of a processed task
DaemonResult ==
    \E task_id \in GeneratedIds \cup {OldProcessedId}, content \in SidecarContents :
        /\ daemon < MaxDaemon
        /\ Exists(files, PathJoin(vista3d_processed_path, task_id \o ".json"))
        /\ files' = SetKey(files, PathJoin(vista3d_processed_path, task_id \o "_result.json"), content)
        /\ daemon' = daemon + 1
        /\ submitted' = NoSubmit
        /\ ret' = NoRet
        /\ UNCHANGED <<now, queryVars, probeVars, errVars, serverVars, clientVars>>

NextStore == StoreSubmit \/ StoreCheck \/ DaemonCopy \/ DaemonUnlink \/ DaemonResult

SpecStore == Init /\ [][NextStore]_vars

(***************************************************************************)
(* Claims about the Task Store (SpecStore).                                *)
(***************************************************************************)
InPending(task_id) == Exists(files, PathJoin(vista3d_tasks_path, task_id \o ".tsk"))
InProcessed(task_id) == Exists(files, PathJoin(vista3d_processed_path, task_id \o ".json"))
InFailed(task_id) == Exists(files, PathJoin(failed_path, task_id \o ".json"))

\* the state the four-step decision of the status operation gives
FourStepState(task_id) ==
    IF InPending(task_id) THEN "pending"
    ELSE IF InProcessed(task_id) THEN "processed"
    ELSE IF InFailed(task_id) THEN "failed"
    ELSE "not_found"

\* a status dict mentions the path in one of its string members
References(status, path) ==
    \E k \in (DOMAIN status) \ {"result"} : status[k] = path

\* C5: check_task_status returns, for every combination of presence of the
\* task's document in the pending, processed and failed locations, the state of
\* the four-step decision (pending, else processed, else failed with the failed
\* file's path, else not_found), as a returned status and not as an exception.
C5_FourStepDecision ==
    ret.op = "check_task_status" =>
        /\ ~ret.raised
        /\ ret.value.status = FourStepState(ret.task_id)
        /\ ret.value.status = "failed" =>
               References(ret.value, PathJoin(failed_path, ret.task_id \o ".json"))

\* C6: check_task_status right after submit_task, for the same task id, returns
\* pending and references exactly the path submit_task returned.
C6_RoundTripReferencesPath ==
    (ret.op = "check_task_status" /\ ret.after # NoSubmit /\ ret.after.task_id = ret.task_id) =>
        /\ ret.value.status = "pending"
        /\ References(ret.value, ret.after.path)

\* C17: check_task_status for a task whose document is in the processed
\* location (and no longer pending) returns status processed: with the content
\* of the sibling result document attached if that document exists and
\* parses, with an error marker and no result if it exists and cannot be
\* parsed, and with nothing attached if it does not exist.
C17_SidecarAttachedOrMarked ==
    (ret.op = "check_task_status" /\ ~InPending(ret.task_id) /\ InProcessed(ret.task_id)) =>
        LET status == ret.value
            result_file == PathJoin(vista3d_processed_path, ret.task_id \o "_result.json")
        IN  /\ ~ret.raised
            /\ status.status = "processed"
            /\ IF ~Exists(files, result_file)
                 THEN DOMAIN status = {"status", "task_id", "processed_file"}
               ELSE IF files[result_file].kind = "garbage"
                 THEN "result_error" \in DOMAIN status /\ "result" \notin DOMAIN status
               ELSE /\ "result" \in DOMAIN status
                    /\ files[result_file].kind = "obj" =>
                           /\ status.result = files[result_file].value
                           /\ "result_error" \notin DOMAIN status

\* C17 witness: the status of a processed task whose result document does not
\* parse has been returned
C17_Witness ==
    /\ ret.op = "check_task_status"
    /\ ret.value.status = "processed"
    /\ "result_error" \in DOMAIN ret.value
    /\ "result" \notin DOMAIN ret.value

\* a step in which check_task_status has returned
CheckReturns ==
    /\ ret'.op = "check_task_status"
    /\ <<ret, files, submitted>>' # <<ret, files, submitted>>

\* C18: check_task_status is a read-only probe: a call creates, rewrites and
\* deletes no file, and a call that follows a call for the same task id with
\* no change of the files in between returns the same status.
C18_StatusIsReadOnlyProbe ==
    [][CheckReturns =>
           /\ files' = files
           /\ (ret.op = "check_task_status" /\ ret.task_id = ret'.task_id) =>
                  ret'.value = ret.value]_vars

\* C18 witness: a pending task was probed again, later than right after its
\* submission, and its document is still there
C18_Witness ==
    /\ ret.op = "check_task_status"
    /\ ret.after = NoSubmit
    /\ ret.value.status = "pending"
    /\ InPending(ret.task_id)

(***************************************************************************)
(* SpecClassify: _classify_mr_sequence called on bounded inputs.           *)
(***************************************************************************)
\* series descriptions: an orientation, a sequence name, a contrast note
DescriptionPrefixes == {"", "AX ", "sag_"}
DescriptionNames ==
    {"T1", "T1W", "MPRAGE", "t1 flair", "T1 FLAIR", "T2", "FLAIR", "DWI", "VIBE", "T1C", "SPGR"}
DescriptionSuffixes == {"", " POST", " gad", "+C", "_CE"}
\* the descriptions the classifier scenarios name
ScenarioDescriptions ==
    {"AX T1 POST GAD", "T1 MPRAGE", "SAG FLAIR", "DWI_EPI TRACE", "CISS BRAIN", ""}
Descriptions ==
    {p \o n \o x : p \in DescriptionPrefixes, n \in DescriptionNames, x \in DescriptionSuffixes}
    \cup {"", None, " T1 "} \cup ScenarioDescriptions

InitClassify ==
    /\ files = EmptyDict
    /\ now = 0
    /\ ret \in [op : {"_classify_mr_sequence"}, series_description : Descriptions,
                 returned : {FALSE}]
    /\ submitted = NoSubmit
    /\ daemon = 0
    /\ probe = NoProbe
    /\ query = NoQuery
    /\ ServerAtStart
    /\ ClientAtStart

Classify ==
    /\ ret.op = "_classify_mr_sequence"
    /\ ~ret.returned
    /\ ret' = [op |-> "_classify_mr_sequence", series_description |-> ret.series_description,
               returned |-> TRUE, value |-> _classify_mr_sequence(ret.series_description)]
    /\ UNCHANGED <<files, now, submitted, daemon, queryVars, probeVars, errVars, serverVars, clientVars>>

NextClassify == Classify

SpecClassify == InitClassify /\ [][NextClassify]_vars

\* the call has returned its tag list
Classifies == ret.op = "_classify_mr_sequence" /\ ret.returned

\* C20: the tag list _classify_mr_sequence returns never holds both T1NC and
\* T1C, and holds T1NC only if it holds T1.
C20_T1NCExcludesT1C ==
    Classifies =>
        /\ ~(InList("T1NC", ret.value) /\ InList("T1C", ret.value))
        /\ InList("T1NC", ret.value) => InList("T1", ret.value)

\* C20 witness: a description that holds a T1 name and a word the T1 rule
\* rejects has been classified, the T1NC pattern alone would match it
C20_Witness ==
    /\ Classifies
    /\ ret.series_description = "T1 FLAIR"
    /\ ~InList("T1", ret.value)
    /\ Search(t1nc_pattern, "T1 FLAIR")

\* the tags of a list, and whether the list names no tag twice
TagSet(tags) == {tags[k] : k \in DOMAIN tags}
NoTagTwice(tags) == Cardinality(TagSet(tags)) = Len(tags)

\* the tag set listed for each scenario description
ScenarioTags ==
    [d \in ScenarioDescriptions |->
        CASE d = "AX T1 POST GAD" -> {"T1", "T1C"}
          [] d = "T1 MPRAGE" -> {"T1", "T1NC"}
          [] d = "SAG FLAIR" -> {"FLAIR"}
          [] d = "DWI_EPI TRACE" -> {"DWI"}
          [] d = "CISS BRAIN" -> {"T2"}
          [] d = "" -> {}]

\* C21: for each of the scenario descriptions "AX T1 POST GAD", "T1 MPRAGE",
\* "SAG FLAIR", "DWI_EPI TRACE", "CISS BRAIN" and the empty string,
\* _classify_mr_sequence returns exactly the listed tags, each once.
C21_ScenarioDescriptionsClassified ==
    (Classifies /\ ret.series_description \in ScenarioDescriptions) =>
        /\ TagSet(ret.value) = ScenarioTags[ret.series_description]
        /\ NoTagTwice(ret.value)

\* C21 witness: "DWI_EPI TRACE" has been classified as DWI alone
C21_Witness ==
    /\ Classifies
    /\ ret.series_description = "DWI_EPI TRACE"
    /\ ret.value = <<"DWI">>

(***************************************************************************)
(* SpecQuery: query_patient_images called on bounded inputs.               *)
(***************************************************************************)
\* largest number of entries of the filter map
MaxFilters == 2

\* column lists a schema file can hold for the MR table
MRColumns == <<"PatientID", "SeriesInstanceUID", "StudyDate", "SeriesDate", "SeriesDescription">>
MRColumnsSnake == <<"Patient_ID", "PatientID", "SeriesInstanceUID", "StudyDate", "SeriesDate",
                    "Series_Description">>
MRColumnsNoDates == <<"PatientID", "SeriesDescription">>
CTColumns == <<"PatientID", "SeriesInstanceUID", "StudyDate", "SeriesDate", "SeriesDescription">>

\* rtplandb_schema.json: loaded or not, and the columns of each table it lists
Schemas ==
    { [loaded |-> TRUE, tables |-> [MR |-> MRColumns, CT |-> CTColumns]],
      [loaded |-> TRUE, tables |-> [MR |-> MRColumnsSnake, CT |-> CTColumns]],
      [loaded |-> TRUE, tables |-> [MR |-> MRColumnsNoDates, CT |-> CTColumns]],
      [loaded |-> TRUE, tables |-> [MR |-> MRColumns, CT |-> CTColumns], no_columns |-> {"MR"}],
      [loaded |-> FALSE, tables |-> EmptyDict] }

\* the series of the MR and CT tables
MRRows ==
    << [PatientID |-> "p1", Patient_ID |-> "q1", SeriesInstanceUID |-> "u1",
        StudyDate |-> "20200101", SeriesDate |-> "20200102",
        SeriesDescription |-> "AX T1 POST GAD", Series_Description |-> "AX T1 POST GAD"],
       [PatientID |-> "p2", Patient_ID |-> "q2", SeriesInstanceUID |-> "u2",
        StudyDate |-> "20210101", SeriesDate |-> "20210101",
        SeriesDescription |-> "T1 MPRAGE", Series_Description |-> "T1 MPRAGE"],
       [PatientID |-> "p3", Patient_ID |-> "q1", SeriesInstanceUID |-> "u3",
        StudyDate |-> "20200101", SeriesDate |-> "20200105",
        SeriesDescription |-> "SAG FLAIR", Series_Description |-> "SAG FLAIR"] >>
CTRows ==
    << [PatientID |-> "p1", SeriesInstanceUID |-> "u4", StudyDate |-> "20200101",
        SeriesDate |-> "20200101", SeriesDescription |-> "CT T1 CHEST"] >>

\* the database the schema file was generated from
DatabaseOf(schema, exists) ==
    [exists |-> exists,
     tables |-> [t \in DOMAIN schema.tables |->
                    [columns |-> schema.tables[t], rows |-> IF t = "MR" THEN MRRows ELSE CTRows]]]

\* the schema file and the database a call can find: every schema with its
\* database, and a database file that does not exist
Environments ==
    [schema : Schemas, db_exists : {TRUE}]
    \cup [schema : {[loaded |-> TRUE, tables |-> [MR |-> MRColumns, CT |-> CTColumns]]},
          db_exists : {FALSE}]

Modalities == {"MR", "CT", "PT", None}
ColumnKeys == {"PatientID", "patientid", "patient_id", "not_a_real_column"}
SequenceTypes == {"T1C", "t1", "T1_CONTRAST", "T1_NO_CONTRAST"}
FilterEntries ==
    [key : ColumnKeys, value : {"p1", "q1"}] \cup [key : {"sequence_type"}, value : SequenceTypes]

\* filter maps: a key occurs once
FilterMaps ==
    UNION { { f \in [1..n -> FilterEntries] : \A i, j \in 1..n : i # j => f[i].key # f[j].key }
            : n \in 0..MaxFilters }

\* the arguments of the call and what it finds on disk
InitQuery ==
    /\ files = EmptyDict
    /\ now = 0
    /\ ret = NoRet
    /\ submitted = NoSubmit
    /\ daemon = 0
    /\ probe = NoProbe
    /\ query \in [called : {FALSE}, modality : Modalities, filters : FilterMaps,
                  env : Environments]
    /\ ServerAtStart
    /\ ClientAtStart

Query ==
    /\ ~query.called
    /\ query' = [called |-> TRUE, modality |-> query.modality, filters |-> query.filters,
                 env |-> query.env,
                 out |-> query_patient_images(query.modality, query.filters,
                                              DatabaseOf(query.env.schema, query.env.db_exists),
                                              query.env.schema)]
    /\ UNCHANGED <<storeVars, probeVars, serverVars, errVars, clientVars>>

NextQuery == Query

SpecQuery == InitQuery /\ [][NextQuery]_vars

(***************************************************************************)
(* Claims about the Query Engine (SpecQuery).                              *)
(***************************************************************************)
Range(seq) == {seq[k] : k \in DOMAIN seq}

\* the call ran its statement and returned rows, not an error record
QueryRan == query.called /\ query.out.sql.executed
QueryReturnedRows ==
    QueryRan /\ \A k \in DOMAIN query.out.value : "error" \notin DOMAIN query.out.value[k]

QueryTable == TableOf(query.modality)
QueryColumns == query.env.schema.tables[QueryTable]

\* the value of the filter map's sequence_type entry, None if it has none
RequestedSequenceType ==
    IF \E k \in DOMAIN query.filters : query.filters[k].key = "sequence_type"
      THEN (CHOOSE f \in Range(query.filters) : f.key = "sequence_type").value
      ELSE None

\* alias normalization of a requested tag
NormalizedTag(requested) ==
    LET tag == upper(requested)
    IN  IF tag = "T1_CONTRAST" THEN "T1C" ELSE IF tag = "T1_NO_CONTRAST" THEN "T1NC" ELSE tag

\* the series description of a row of the table, whatever the column is called
SeriesDescriptionOf(row) ==
    LET cols == {c \in DOMAIN row : replace(lower(c), "_", "") = "seriesdescription"}
    IN  IF cols = {} THEN "" ELSE row[CHOOSE c \in cols : TRUE]

\* the series uids of the rows the statement selects, in its order
SelectedRows ==
    Execute(DatabaseOf(query.env.schema, TRUE).tables[QueryTable], QueryColumns,
            ApplyFilters(query.filters, QueryColumns, NoFilters)).rows

RECURSIVE KeepTagged(_, _)
KeepTagged(rows, tag) ==
    IF rows = <<>> THEN <<>>
    ELSE (IF InList(tag, _classify_mr_sequence(SeriesDescriptionOf(Head(rows))))
            THEN <<Head(rows).seriesinstanceuid>> ELSE <<>>)
         \o KeepTagged(Tail(rows), tag)

\* C8: on the MR table with a sequence_type filter, a row is kept if and only
\* if the requested tag, after alias normalization (T1_CONTRAST as T1C,
\* T1_NO_CONTRAST as T1NC, anything else upper-cased), is in the tag set the
\* classifier computes for the row's series description.
C8_KeepsExactlyTaggedRows ==
    (QueryReturnedRows /\ QueryTable = "MR" /\ RequestedSequenceType # None) =>
        [k \in DOMAIN query.out.value |-> query.out.value[k].seriesinstanceuid]
            = KeepTagged(SelectedRows, NormalizedTag(RequestedSequenceType))

\* the words of a statement: what blanks, line ends and commas separate
RECURSIVE NextSeparator(_, _)
NextSeparator(text, i) ==
    IF i > Len(text) \/ CharAt(text, i) \in {" ", ",", "\n"} THEN i ELSE NextSeparator(text, i + 1)

Words(text) ==
    LET starts == {i \in 1..Len(text) :
                      /\ NextSeparator(text, i) > i
                      /\ i = 1 \/ NextSeparator(text, i - 1) = i - 1}
    IN  {SubSeq(text, i, NextSeparator(text, i) - 1) : i \in starts}

SqlKeywords == {"SELECT", "DISTINCT", "as", "FROM", "WHERE", "1=1", "AND", "LIKE", "=",
                "ORDER", "BY", "StudyDate", "SeriesDate", "DESC"}

\* the entries of the filter map that become predicates: the key is not the
\* reserved one and resolves to a column
RECURSIVE PredicateEntries(_, _)
PredicateEntries(filters, table_columns) ==
    IF filters = <<>> THEN <<>>
    ELSE (IF Head(filters).key # "sequence_type"
             /\ \E k \in DOMAIN table_columns : ColumnMatches(Head(filters).key, table_columns[k])
            THEN <<Head(filters)>> ELSE <<>>)
         \o PredicateEntries(Tail(filters), table_columns)

\* C9: the executed SQL text consists of the table name, column names of the
\* loaded schema (and their aliases) and ? placeholders only; a filter key that
\* resolves to no column adds nothing to the text or the parameters; every
\* filter value arrives as one bound parameter, so there are as many bound
\* parameters as placeholders.
C9_OnlySchemaNamesAndPlaceholders ==
    QueryRan =>
        LET sql == query.out.sql
            bound == PredicateEntries(query.filters, QueryColumns)
        IN  /\ Words(sql.final_query) \subseteq
                   SqlKeywords \cup {QueryTable, "?"} \cup Range(QueryColumns)
                   \cup {Alias(c) : c \in Range(QueryColumns)}
            /\ CountChar(sql.final_query, "?") = Len(sql.params)
            /\ Len(sql.params) = Len(bound)
            /\ \A k \in DOMAIN bound :
                   sql.params[k] \in {bound[k].value, "%" \o bound[k].value \o "%"}

\* C9 witness: a statement ran for a filter map with a key that resolves to a
\* column and a key that resolves to none
C9_Witness ==
    /\ QueryRan
    /\ Len(query.out.sql.params) = 1
    /\ \E k \in DOMAIN query.filters : query.filters[k].key = "not_a_real_column"
    /\ \E k \in DOMAIN query.filters : query.filters[k].key = "patient_id"

\* the column a key resolves to when the three rules are tried in priority
\* order, each over the whole column list
FirstWhere(table_columns, test(_)) ==
    LET hits == {k \in DOMAIN table_columns : test(table_columns[k])}
    IN  IF hits = {} THEN None
        ELSE table_columns[CHOOSE k \in hits : \A j \in hits : k <= j]

PriorityColumn(filter_key, table_columns) ==
    LET exact(c) == filter_key = c
        nocase(c) == lower(filter_key) = lower(c)
        loose(c) == replace(lower(filter_key), "_", "") = replace(lower(c), "_", "")
    IN  IF FirstWhere(table_columns, exact) # None THEN FirstWhere(table_columns, exact)
        ELSE IF FirstWhere(table_columns, nocase) # None THEN FirstWhere(table_columns, nocase)
        ELSE FirstWhere(table_columns, loose)

RECURSIVE PriorityParts(_, _)
PriorityParts(filters, table_columns) ==
    IF filters = <<>> THEN <<>>
    ELSE LET column == PriorityColumn(Head(filters).key, table_columns)
         IN  (IF Head(filters).key = "sequence_type" \/ column = None THEN <<>>
              ELSE IF column \in text_search_fields THEN <<"AND " \o column \o " LIKE ?">>
              ELSE <<"AND " \o column \o " = ?">>)
             \o PriorityParts(Tail(filters), table_columns)

\* C10: a filter key resolves by the three rules in priority order over the
\* whole column set: the column equal to it if there is one, else a column equal
\* ignoring case, else a column equal ignoring underscores and case; so the
\* predicates of the statement name exactly those columns.
C10_ResolvesInPriorityOrder ==
    QueryRan =>
        query.out.sql.final_query =
            FinalQuery(QueryTable, QueryColumns, PriorityParts(query.filters, QueryColumns))

(***************************************************************************)
(* The Router: handle_mcp_request.  A request is a function from the       *)
(* members of the JSON object; a handler outcome is either a response      *)
(* (Returned) or an exception that left handle_mcp_request (Raised).       *)
(***************************************************************************)
Response(id, result) == [jsonrpc |-> "2.0", id |-> id, result |-> result]
ErrorResponse(id, code, message) ==
    [jsonrpc |-> "2.0", id |-> id, error |-> [code |-> code, message |-> message]]
TextResult(text) == [content |-> <<[type |-> "text", text |-> text]>>]

Returned(value, fs) == [raised |-> FALSE, value |-> value, files |-> fs]
Raised(message, fs) == [raised |-> TRUE, value |-> message, files |-> fs]

\* what an attribute lookup on None raises
NoneHasNoGet == "'NoneType' object has no attribute 'get'"

\* the tools of the tools/list result with the required list of each inputSchema
ToolCatalog ==
    << [name |-> "submit_vista3d_point_task",
        required |-> <<"point_coordinates", "input_file", "output_directory">>],
       [name |-> "check_vista3d_task_status", required |-> <<"task_id">>],
       [name |-> "submit_full_body_task", required |-> <<"input_file", "output_directory">>],
       [name |-> "query_patient_images", required |-> <<>>],
       [name |-> "list_available_images", required |-> <<>>] >>

\* "not arguments.get(key)" for a string and for a list argument
NotStr(arguments, key) == key \notin DOMAIN arguments \/ arguments[key] \in {None, ""}
NotList(arguments, key) == key \notin DOMAIN arguments \/ Len(arguments[key]) = 0

\* str() of a list of integers
PyList(list) == "[" \o Join([k \in DOMAIN list |-> ToString(list[k])], ", ") \o "]"

\* the members of a dict of strings in the order of the document
RECURSIVE Members(_, _)
Members(d, keys) ==
    IF keys = {} THEN <<>>
    ELSE LET k == CHOOSE k \in keys : \A other \in keys \ {k} : StrLess(k, other)
         IN  <<"  \"" \o k \o "\": \"" \o d[k] \o "\"">> \o Members(d, keys \ {k})

\* json.dumps(d, indent=2) of a dict of strings
JsonDumps(d) ==
    IF DOMAIN d = {} THEN "{}" ELSE "{\n" \o Join(Members(d, DOMAIN d), ",\n") \o "\n}"

\* the images below the directories that exist: directory -> the *.nii.gz files
\* rglob finds
ImageTree == [d \in {"images"} |-> <<"images/brain.nii.gz">>]
\* VISTA3D_IMAGE_DIRS, split at ":" and stripped
image_dirs == <<"images", "missing">>

RECURSIVE ImagesBelow(_)
ImagesBelow(dirs) ==
    IF dirs = <<>> THEN <<>>
    ELSE (IF Head(dirs) \in DOMAIN ImageTree THEN ImageTree[Head(dirs)] ELSE <<>>)
         \o ImagesBelow(Tail(dirs))

list_available_images(search_directory) ==
    IF Truthy(search_directory) THEN ImagesBelow(<<search_directory>>)
    ELSE ImagesBelow(image_dirs)

\* the schema file and the database the server runs with
rtplandb_schema == [loaded |-> TRUE, tables |-> [MR |-> MRColumns, CT |-> CTColumns]]
rtplandb == DatabaseOf(rtplandb_schema, TRUE)

\* the tool branches of handle_mcp_request, inside its try
SubmitPointTool(id, arguments, fs, clock, can_write) ==
    IF NotList(arguments, "point_coordinates") THEN Raised("point_coordinates is required", fs)
    ELSE IF NotStr(arguments, "input_file") THEN Raised("input_file is required", fs)
    ELSE IF NotStr(arguments, "output_directory") THEN Raised("output_directory is required", fs)
    ELSE LET point_type == Get(arguments, "point_type", "positive")
             task == create_vista3d_task(arguments.point_coordinates, arguments.input_file,
                                         arguments.output_directory, point_type,
                                         Get(arguments, "additional_points", <<>>),
                                         Get(arguments, "patient_id", None),
                                         Get(arguments, "series_uid", None), clock)
             written == submit_task(task, fs, can_write)
         IN  IF written.raised THEN Raised(written.value, fs)
             ELSE Returned(Response(id, TextResult(
                      "Successfully submitted Vista3D task!\n\nTask ID: " \o task.task_id
                      \o "\nTask file: " \o written.value
                      \o "\nPoint coordinates: " \o PyList(arguments.point_coordinates)
                      \o "\nPoint type: " \o point_type
                      \o "\n\nTask is now queued for processing by ARTDaemon.")),
                  written.files)

StatusText(task_id, status) ==
    "Task ID: " \o task_id \o "\nStatus: " \o status.status \o "\n"
    \o (IF status.status = "processed"
          THEN (IF "output_mask" \in DOMAIN status
                  THEN "Output mask: " \o status.output_mask \o "\n" ELSE "")
               \o (IF "result" \in DOMAIN status
                     THEN "Result details: "
                          \o (IF "result_error" \in DOMAIN status THEN status.result
                              ELSE JsonDumps(status.result)) \o "\n"
                     ELSE "")
        ELSE IF status.status = "pending" THEN "Task is still being processed...\n"
        ELSE IF status.status = "failed"
          THEN "Task failed. Check file: " \o Get(status, "failed_file", "N/A") \o "\n"
        ELSE "")

CheckStatusTool(id, arguments, fs) ==
    LET task_id == Get(arguments, "task_id", None)
    IN  Returned(Response(id, TextResult(StatusText(task_id, check_task_status(task_id, fs)))), fs)

\* a branch that creates and submits the task before it validates
SubmitFullBodyToolWritingFirst(id, arguments, fs, clock, can_write) ==
    LET task == create_full_body_task(Get(arguments, "input_file", None),
                                      Get(arguments, "output_directory", None),
                                      None, None, None, clock)
        written == submit_task(task, fs, can_write)
    IN  IF written.raised THEN Raised(written.value, fs)
        ELSE IF NotStr(arguments, "input_file")
          THEN Raised("input_file is required", written.files)
        ELSE IF NotStr(arguments, "output_directory")
          THEN Raised("output_directory is required", written.files)
        ELSE Returned(Response(id, TextResult(
                 "Successfully submitted full body segmentation task!\n\nTask ID: "
                 \o task.task_id)), written.files)

SubmitFullBodyTool(id, arguments, fs, clock, can_write) ==
    IF NotStr(arguments, "input_file") THEN Raised("input_file is required", fs)
    ELSE IF NotStr(arguments, "output_directory") THEN Raised("output_directory is required", fs)
    ELSE LET task == create_full_body_task(arguments.input_file, arguments.output_directory,
                                           Get(arguments, "description", None),
                                           Get(arguments, "patient_id", None),
                                           Get(arguments, "series_uid", None), clock)
             written == submit_task(task, fs, can_write)
         IN  IF written.raised THEN Raised(written.value, fs)
             ELSE Returned(Response(id, TextResult(
                      "Successfully submitted full body segmentation task!\n\nTask ID: "
                      \o task.task_id \o "\nTask file: " \o written.value
                      \o "\nInput file: " \o arguments.input_file
                      \o "\nOutput directory: " \o arguments.output_directory
                      \o "\n\nTask is now queued for processing by ARTDaemon.")),
                  written.files)

\* result.get(first) or result.get(second, 'N/A')
GetOr(result, first, second) ==
    IF first \in DOMAIN result /\ Truthy(result[first]) THEN result[first]
    ELSE Get(result, second, "N/A")

RECURSIVE ResultLines(_, _)
ResultLines(results, i) ==
    IF i > Len(results) THEN ""
    ELSE LET result == results[i]
         IN  "\n" \o ToString(i) \o ". Patient: " \o GetOr(result, "patientid", "patient_id")
             \o " (" \o GetOr(result, "patientname", "patient_name") \o ")\n"
             \o "   Modality: " \o Get(result, "modality", "N/A") \o "\n"
             \o "   Study Date: " \o GetOr(result, "studydate", "study_date") \o "\n"
             \o "   Input File: " \o Get(result, "input_file", "N/A") \o "\n"
             \o "   Output Directory: " \o Get(result, "output_directory", "N/A") \o "\n"
             \o (IF Truthy(Get(result, "sequence_name", None))
                   THEN "   Sequence: " \o result.sequence_name \o "\n" ELSE "")
             \o (IF Truthy(Get(result, "contrast_agent", None))
                   THEN "   Contrast: " \o result.contrast_agent \o "\n" ELSE "")
             \o ResultLines(results, i + 1)

\* a formatter without the branch for an error record
ResultsTextWithoutErrorBranch(results) ==
    IF results # <<>> /\ "error" \notin DOMAIN results[1]
      THEN "Found " \o ToString(Len(results)) \o " patient image(s):\n"
           \o ResultLines(results, 1)
    ELSE "No patient images found matching the criteria."

\* the text the query_patient_images tool makes of the results
ResultsText(results) ==
    IF results # <<>> /\ "error" \notin DOMAIN results[1]
      THEN "Found " \o ToString(Len(results)) \o " patient image(s):\n"
           \o ResultLines(results, 1)
    ELSE IF results # <<>> THEN "Database query error: " \o results[1].error
    ELSE "No patient images found matching the criteria."

\* the text of the query_patient_images tool's result
QueryText(arguments) ==
    ResultsText(query_patient_images(Get(arguments, "modality", None),
                                     Get(arguments, "filters", <<>>),
                                     rtplandb, rtplandb_schema).value)

\* the arguments of the query_patient_images calls the model issues, and
\* QueryText tabulated for them
QueryArguments ==
    {[modality |-> "MR", filters |-> <<[key |-> "patient_id", value |-> "p1"]>>], EmptyDict}
QueryTextTable == [arguments \in QueryArguments |-> QueryText(arguments)]

QueryTool(id, arguments, fs) ==
    Returned(Response(id, TextResult(IF arguments \in QueryArguments
                                       THEN QueryTextTable[arguments]
                                       ELSE QueryText(arguments))), fs)

ListImagesTool(id, arguments, fs) ==
    LET search_directory == Get(arguments, "search_directory", None)
        images == list_available_images(search_directory)
        listing == Join([k \in DOMAIN images |-> "- " \o images[k]], "\n")
    IN  Returned(Response(id, TextResult(
            IF Truthy(search_directory)
              THEN "Available input images in " \o search_directory \o ":\n" \o listing
              ELSE "Available input images:\n" \o listing)), fs)

\* a try whose unknown-tool branch raises instead of returning its response
CaughtWithUnknownToolRaised(id, tried, fs) ==
    IF tried.raised
      THEN Returned(ErrorResponse(id, -32603, "Internal error: " \o tried.value), tried.files)
    ELSE IF "error" \in DOMAIN tried.value
      THEN Returned(ErrorResponse(id, -32603, "Internal error: " \o tried.value.error.message), fs)
    ELSE tried

\* except Exception as e: what a tool branch raised becomes a -32603 response;
\* what the branch wrote before it raised stays written
Caught(id, tried, fs) ==
    IF tried.raised
      THEN Returned(ErrorResponse(id, -32603, "Internal error: " \o tried.value), tried.files)
      ELSE tried

\* the tool branch of the try
Dispatch(id, tool_name, arguments, fs, clock, can_write) ==
    IF \A k \in DOMAIN ToolCatalog : ToolCatalog[k].name # tool_name
      THEN Returned(ErrorResponse(id, -32601, "Unknown tool: " \o tool_name), fs)
    ELSE IF arguments = Null THEN Raised(NoneHasNoGet, fs)
    ELSE IF tool_name = "submit_vista3d_point_task"
      THEN SubmitPointTool(id, arguments, fs, clock, can_write)
    ELSE IF tool_name = "check_vista3d_task_status"
      THEN CheckStatusTool(id, arguments, fs)
    ELSE IF tool_name = "submit_full_body_task"
      THEN SubmitFullBodyTool(id, arguments, fs, clock, can_write)
    ELSE IF tool_name = "query_patient_images"
      THEN QueryTool(id, arguments, fs)
    ELSE ListImagesTool(id, arguments, fs)

\* the tools/call branch: params and arguments are read outside the try, the
\* tool branches run inside it
ToolsCall(req, fs, clock, can_write) ==
    LET id == Get(req, "id", NoneId)
        params == Get(req, "params", EmptyDict)
    IN  IF params = Null THEN Raised(NoneHasNoGet, fs)
        ELSE
          Caught(id, Dispatch(id, Get(params, "name", None),
                              Get(params, "arguments", EmptyDict), fs, clock, can_write), fs)

\* a router that remembers having been initialized and refuses a second
\* initialize
HandleInitializeOnce(req, fs, clock, can_write) ==
    LET method == Get(req, "method", None)
        id == Get(req, "id", NoneId)
    IN  IF method = "tools/list"
          THEN Returned(Response(id, [tools |-> ToolCatalog]), fs)
        ELSE IF method = "tools/call"
          THEN ToolsCall(req, fs, clock, can_write)
        ELSE IF method = "initialize"
          THEN IF \E i \in 1..Len(stdout) :
                      /\ answered[i] # 0
                      /\ inbox[answered[i]].kind = "obj"
                      /\ Get(inbox[answered[i]].value, "method", None) = "initialize"
                 THEN Returned(ErrorResponse(id, -32600, "Already initialized"), fs)
                 ELSE Returned(Response(id, [protocolVersion |-> "2024-11-05",
                                             capabilities |-> [tools |-> EmptyDict],
                                             serverInfo |-> [name |-> "vista3d-mcp-server",
                                                             version |-> "1.0.0"]]), fs)
        ELSE Returned(ErrorResponse(id, -32601, "Unknown method: " \o method), fs)

handle_mcp_request(req, fs, clock, can_write) ==
    LET method == Get(req, "method", None)
        id == Get(req, "id", NoneId)
    IN  IF method = "tools/list"
          THEN Returned(Response(id, [tools |-> ToolCatalog]), fs)
        ELSE IF method = "tools/call"
          THEN ToolsCall(req, fs, clock, can_write)
        ELSE IF method = "initialize"
          THEN Returned(Response(id, [protocolVersion |-> "2024-11-05",
                                      capabilities |-> [tools |-> EmptyDict],
                                      serverInfo |-> [name |-> "vista3d-mcp-server",
                                                      version |-> "1.0.0"]]), fs)
        ELSE Returned(ErrorResponse(id, -32601, "Unknown method: " \o method), fs)

(***************************************************************************)
(* Claims about the failures of a query (SpecQuery).                       *)
(***************************************************************************)
\* the failures a call can meet, told from what the call finds on disk
MissingDatabase == ~query.env.db_exists
UnloadableSchema == query.env.db_exists /\ ~query.env.schema.loaded
AbsentTable ==
    query.env.db_exists /\ query.env.schema.loaded
    /\ QueryTable \notin DOMAIN query.env.schema.tables
UnexpectedException ==
    query.env.db_exists /\ query.env.schema.loaded
    /\ QueryTable \in DOMAIN query.env.schema.tables
    /\ QueryTable \in Get(query.env.schema, "no_columns", {})
\* the statement orders by a column the table does not have
SqlFailure ==
    QueryRan /\ \E c \in {"StudyDate", "SeriesDate"} : c \notin Range(QueryColumns)
QueryFailed ==
    MissingDatabase \/ UnloadableSchema \/ AbsentTable \/ UnexpectedException \/ SqlFailure

\* the response of the query_patient_images tool to the list the call returned
QueryAnswer == Response(1, TextResult(ResultsText(query.out.value)))
AnswerText(resp) == resp.result.content[1].text

\* C11: a call that meets a missing database file, an unloadable schema, a
\* table absent from the schema, an SQL execution failure or an unexpected
\* exception returns a one-element list holding an error record, a call that
\* meets none of them returns no error record, and the tool answers a failed
\* call with a result response whose text differs from the answer to a query
\* that matched no rows.
C11_FailuresAreErrorRecords ==
    query.called =>
        /\ QueryFailed =>
               /\ Len(query.out.value) = 1
               /\ DOMAIN query.out.value[1] = {"error"}
               /\ DOMAIN QueryAnswer = {"jsonrpc", "id", "result"}
               /\ AnswerText(QueryAnswer) # ResultsText(<<>>)
        /\ ~QueryFailed =>
               \A k \in DOMAIN query.out.value : "error" \notin DOMAIN query.out.value[k]

\* C11 witness: a statement with a predicate ran and failed in the database
C11_Witness == query.called /\ SqlFailure /\ Len(query.out.sql.params) = 1

\* the filter map without its sequence_type entry, and what the call returns
\* for it
WithoutSequenceType == SelectSeq(query.filters, LAMBDA f : f.key # "sequence_type")
OutcomeWithoutSequenceType ==
    query_patient_images(query.modality, WithoutSequenceType,
                         DatabaseOf(query.env.schema, query.env.db_exists), query.env.schema)

\* C24: a sequence_type entry of the filter map adds no predicate and no
\* parameter: the statement and the parameters are those of the same call
\* without the entry.  On a table other than MR the call returns what the same
\* call without the entry returns, and no row carries classified_sequences.
C24_SequenceTypeOnlyNarrowsMR ==
    (query.called /\ RequestedSequenceType # None) =>
        /\ query.out.sql = OutcomeWithoutSequenceType.sql
        /\ ~Contains(query.out.sql.final_query, "sequence_type")
        /\ QueryTable # "MR" =>
               /\ query.out.value = OutcomeWithoutSequenceType.value
               /\ \A k \in DOMAIN query.out.value :
                      "classified_sequences" \notin DOMAIN query.out.value[k]

\* C24 witness: the CT table was queried for T1C and for a patient, and its
\* row, which the classifier would not tag T1C, was returned
C24_Witness ==
    /\ QueryReturnedRows
    /\ QueryTable = "CT"
    /\ RequestedSequenceType = "T1C"
    /\ Len(query.out.sql.params) = 1
    /\ Len(query.out.value) = 1
    /\ ~InList("T1C", Classified(SeriesDescriptionOf(CTRows[1])))

(***************************************************************************)
(* The Router: run.  One line at a time: read and parse, handle, print.    *)
(***************************************************************************)
\* for line in sys.stdin: json.loads(line.strip()).  A line that is no JSON is
\* skipped; a line nested deeper than the recursion limit raises RecursionError
\* before request is assigned, and the handler for Exception answers with the
\* id of the request the variable still holds
run_read ==
    /\ pc = "read"
    /\ stdin # <<>>
    /\ stdin' = Tail(stdin)
    /\ LET line == Head(stdin)
       IN  IF JSONDecodeError(line)
             THEN UNCHANGED <<pc, request, response>>
           ELSE IF line.kind = "deep"
             THEN /\ pc' = "print"
                  /\ response' = ErrorResponse(
                         IF request.kind = "obj" THEN Get(request.value, "id", NoneId) ELSE NoneId,
                         -32603, "Internal error: maximum recursion depth exceeded")
                  /\ UNCHANGED request
           ELSE /\ pc' = "handle"
                /\ request' = line
                /\ UNCHANGED response
    /\ UNCHANGED <<storeVars, queryVars, probeVars, errVars, stdout, inbox, answered, clientVars>>

\* number of lines a pipe holds before a write to it blocks
PipeCapacity == 2

\* a logger whose handler writes to sys.stdout
log_stream_stdout == "stdout"

\* logging.StreamHandler(sys.stderr): the stream the logger writes to
log_stream == "stderr"

LogLine(message) == [kind |-> "log", value |-> [message |-> message]]

\* a write to sys.stderr or sys.stdout blocks while the pipe holds PipeCapacity
\* lines
StderrFull == piped /\ Len(stderr) - stderr_read >= PipeCapacity
StdoutFull == piped /\ Len(stdout) - stdout_read >= PipeCapacity

\* self.logger.debug(...): the line goes to the handler's stream
Logs(stream, line) ==
    IF stream = "stderr"
      THEN /\ stderr' = Append(stderr, line)
           /\ UNCHANGED <<stdout, answered>>
      ELSE /\ stdout' = Append(stdout, line)
           /\ answered' = Append(answered, 0)
           /\ UNCHANGED stderr

\* response = self.handle_mcp_request(request).  The handler logs the request
\* (to stderr) before anything else.  An exception that leaves
\* handle_mcp_request is answered by the handler for Exception, which reads
\* request.get("id"); when request is no dict that handler raises too, and the
\* outer handler prints to stderr and run returns
run_handle ==
    /\ pc = "handle"
    /\ ~StderrFull
    /\ \E can_write \in BOOLEAN :
         IF request.kind # "obj"
           THEN /\ pc' = "stopped"
                /\ stderr' = Append(stderr, LogLine("Server error"))
                /\ UNCHANGED <<files, response, stdout, answered>>
           ELSE LET Handled(r) ==
                        /\ pc' = "print"
                        /\ Logs(log_stream, LogLine("MCP Request"))
                        /\ files' = r.files
                        /\ response' = IF r.raised
                                         THEN ErrorResponse(Get(request.value, "id", NoneId),
                                                            -32603, "Internal error: " \o r.value)
                                         ELSE r.value
                IN  Handled(handle_mcp_request(request.value, files, now, can_write))
    /\ UNCHANGED <<now, ret, submitted, daemon, queryVars, probeVars, stdin, request, inbox, stderr_read,
                   piped, clientVars>>

\* print(json.dumps(response), flush=True)
run_print ==
    /\ pc = "print"
    /\ ~StdoutFull
    /\ stdout' = Append(stdout, JsonLine(response))
    /\ answered' = Append(answered, Len(inbox) - Len(stdin))
    /\ response' = NoResponse
    /\ pc' = "read"
    /\ UNCHANGED <<storeVars, queryVars, probeVars, errVars, stdin, request, inbox, clientVars>>

(***************************************************************************)
(* Spec: the server on its own; the environment writes lines to its        *)
(* standard input and the clock advances.                                  *)
(***************************************************************************)
Without(d, key) == [k \in (DOMAIN d) \ {key} |-> d[k]]
\* d, and d with one member left out
OrOneLess(d) == {d} \cup {Without(d, key) : key \in DOMAIN d}

PointArguments ==
    [point_coordinates |-> <<100, 100, 50>>, input_file |-> "in.nii.gz", output_directory |-> "out"]
FullBodyArguments == [input_file |-> "in.nii.gz", output_directory |-> "out"]
StatusArguments ==
    {[task_id |-> id] : id \in {OldProcessedId, OldFailedId, generate_task_id("full_body", 0)}}
    \cup {EmptyDict}
ListArguments == {[search_directory |-> "images"], EmptyDict}

\* the params of tools/call requests
ToolCalls ==
    {[name |-> "submit_vista3d_point_task", arguments |-> a] : a \in OrOneLess(PointArguments)}
    \cup {[name |-> "submit_full_body_task", arguments |-> a] : a \in OrOneLess(FullBodyArguments)}
    \cup {[name |-> "check_vista3d_task_status", arguments |-> a] : a \in StatusArguments}
    \cup {[name |-> "query_patient_images", arguments |-> a] : a \in QueryArguments}
    \cup {[name |-> "list_available_images", arguments |-> a] : a \in ListArguments}
    \cup {[name |-> "no_such_tool", arguments |-> EmptyDict],
          [name |-> "submit_full_body_task", arguments |-> Null],
          [name |-> "check_vista3d_task_status"]}

\* the JSON objects a line can hold: requests with the given id, and a
\* notification
Requests(id) ==
    {[jsonrpc |-> "2.0", id |-> id, method |-> m] :
        m \in {"initialize", "tools/list", "tools/call", "ping"}}
    \cup {[jsonrpc |-> "2.0", id |-> id, method |-> "tools/call", params |-> p] :
             p \in ToolCalls \cup {Null}}
    \cup {[jsonrpc |-> "2.0", method |-> "initialize"]}

\* the lines the environment can write
Lines(id) ==
    {JsonLine(r) : r \in Requests(id)}
    \cup {[kind |-> k, value |-> EmptyDict] : k \in {"garbage", "blank", "deep", "nonobj"}}

\* Lines, tabulated
LinesTable == [id \in 1..MaxFrames |-> Lines(id)]

InitServer ==
    /\ files = InitialFiles
    /\ now = 0
    /\ ret = NoRet
    /\ submitted = NoSubmit
    /\ daemon = 0
    /\ probe = NoProbe
    /\ query = NoQuery
    /\ ServerAtStart
    /\ ClientAtStart

StdinWrite ==
    /\ Len(inbox) < MaxFrames
    /\ \E line \in LinesTable[Len(inbox) + 1] :
         /\ stdin' = Append(stdin, line)
         /\ inbox' = Append(inbox, line)
    /\ UNCHANGED <<storeVars, queryVars, probeVars, errVars, stdout, pc, request, response, answered, clientVars>>

Tick ==
    /\ now < MaxClock
    /\ now' = now + 1
    /\ UNCHANGED <<files, ret, submitted, daemon, queryVars, probeVars, errVars, serverVars, clientVars>>

Next == StdinWrite \/ Tick \/ run_read \/ run_handle \/ run_print

Spec == InitServer /\ [][Next]_vars

(***************************************************************************)
(* Claims about the Router (Spec).                                         *)
(***************************************************************************)
\* number of lines run has finished with
Served == Len(inbox) - Len(stdin) - (IF pc \in {"handle", "print"} THEN 1 ELSE 0)

\* the lines of stdout run printed while serving line i of the input
AnswersTo(i) == {k \in DOMAIN answered : answered[k] = i}

ParsesAsJson(line) == line.kind \in {"obj", "nonobj"}

\* C2: every line that parses as JSON ends in exactly one response on stdout,
\* and run goes on to the following lines: no exception stops the server.
C2_EveryParsedFrameAnswered ==
    /\ pc # "stopped"
    /\ \A i \in 1..Served : ParsesAsJson(inbox[i]) => Cardinality(AnswersTo(i)) = 1

ResponseIds == [k \in DOMAIN stdout |-> Get(stdout[k].value, "id", NoneId)]

\* the ids of the well-formed requests among lines, in order
RECURSIVE RequestIds(_)
RequestIds(lines) ==
    IF lines = <<>> THEN <<>>
    ELSE (IF Head(lines).kind = "obj" THEN <<Get(Head(lines).value, "id", NoneId)>> ELSE <<>>)
         \o RequestIds(Tail(lines))

\* C3: requests are served strictly one at a time, so the response ids on
\* stdout are the ids of the well-formed requests in input order: of those run
\* has finished with while it runs, and of all of them once it has ended.
C3_ResponseIdsInRequestOrder ==
    ResponseIds = RequestIds(IF pc = "stopped" THEN inbox ELSE SubSeq(inbox, 1, Served))

\* the required arguments a tools/call request leaves out
MissingRequired(req) ==
    IF Get(req, "method", None) # "tools/call" \/ "params" \notin DOMAIN req THEN {}
    ELSE IF req.params = Null THEN {}
    ELSE LET arguments == Get(req.params, "arguments", EmptyDict)
             tools == {k \in DOMAIN ToolCatalog : ToolCatalog[k].name = Get(req.params, "name", None)}
         IN  IF tools = {} \/ arguments = Null THEN {}
             ELSE {key \in Range(ToolCatalog[CHOOSE k \in tools : TRUE].required) :
                      key \notin DOMAIN arguments}

\* C7: a tools/call that leaves out a required argument of the tool it names is
\* answered with an error response of code -32603 whose message names a
\* missing field.
C7_MissingArgumentIsInternalError ==
    \A k \in DOMAIN stdout :
        (answered[k] > 0 /\ inbox[answered[k]].kind = "obj"
            /\ MissingRequired(inbox[answered[k]].value) # {}) =>
                LET r == stdout[k].value
                IN  /\ "error" \in DOMAIN r
                    /\ r.error.code = -32603
                    /\ \E key \in MissingRequired(inbox[answered[k]].value) :
                           Contains(r.error.message, key)

\* the responses on stdout that report a task as submitted
SubmissionResponses ==
    {k \in DOMAIN stdout :
        /\ "result" \in DOMAIN stdout[k].value
        /\ "content" \in DOMAIN stdout[k].value.result
        /\ Contains(stdout[k].value.result.content[1].text, "Successfully submitted")}

\* the documents in the pending location
PendingDocuments ==
    {path \in DOMAIN files :
        \E id \in GeneratedIds : path = PathJoin(vista3d_tasks_path, id \o ".tsk")}

\* C12: each task's document is written exactly once and no submission
\* overwrites the pending document of another: with no daemon at work, the
\* submissions the server has reported as successful have left as many pending
\* documents.
C12_SubmissionsLeaveDistinctDocuments ==
    pc \in {"read", "handle", "stopped"} =>
        Cardinality(PendingDocuments) = Cardinality(SubmissionResponses)

\* a response frame: exactly one of result and error, an error with an integer
\* code and a string message
WellShaped(r) ==
    /\ ("result" \in DOMAIN r) # ("error" \in DOMAIN r)
    /\ "error" \in DOMAIN r =>
           /\ DOMAIN r.error = {"code", "message"}
           /\ r.error.code \in Int
           /\ r.error.message \in STRING

\* C14: every response frame on stdout answers a request, carries the id of
\* that request, and holds exactly one of the members result and error, an
\* error with an integer code and a string message.
C14_ResponseCarriesRequestId ==
    \A k \in DOMAIN stdout :
        answered[k] > 0 =>
            /\ inbox[answered[k]].kind = "obj"
            /\ "id" \in DOMAIN stdout[k].value
            /\ stdout[k].value.id = Get(inbox[answered[k]].value, "id", NoneId)
            /\ WellShaped(stdout[k].value)

\* a request whose method is none of the three, or a tools/call naming a tool
\* that is not in the registry
NamesUnknown(line) ==
    /\ line.kind = "obj"
    /\ \/ Get(line.value, "method", None) \notin {"initialize", "tools/list", "tools/call"}
       \/ /\ Get(line.value, "method", None) = "tools/call"
          /\ Get(line.value, "params", EmptyDict) # Null
          /\ \A k \in DOMAIN ToolCatalog :
                 ToolCatalog[k].name # Get(Get(line.value, "params", EmptyDict), "name", None)

\* C15: handling a request whose method is unknown, or a tools/call naming a
\* tool that is not in the registry, yields an error response with code
\* -32601 and the id of the request, and leaves the task documents and the
\* rest of the server state as they were.
C15_UnknownNameIsNotFound ==
    [][(pc = "handle" /\ pc' # pc /\ NamesUnknown(request)) =>
           /\ pc' = "print"
           /\ DOMAIN response' = {"jsonrpc", "id", "error"}
           /\ response'.error.code = -32601
           /\ response'.id = Get(request.value, "id", NoneId)
           /\ UNCHANGED <<files, stdin, stdout, request, inbox, answered>>]_vars

\* C15 witness: a tools/call naming an unknown tool has been handled after a
\* task was submitted
C15_Witness ==
    /\ pc = "print"
    /\ NamesUnknown(request)
    /\ Get(request.value, "method", None) = "tools/call"
    /\ PendingDocuments # {}

\* the line is a call of a submit tool whose arguments lack a required one
LacksRequired(line) ==
    /\ line.kind = "obj"
    /\ Get(line.value, "method", None) = "tools/call"
    /\ LET params == Get(line.value, "params", EmptyDict)
           arguments == Get(params, "arguments", EmptyDict)
       IN  /\ arguments # Null
           /\ \E k \in DOMAIN ToolCatalog :
                  /\ ToolCatalog[k].name = Get(params, "name", None)
                  /\ ToolCatalog[k].name \in {"submit_vista3d_point_task", "submit_full_body_task"}
                  /\ \E r \in DOMAIN ToolCatalog[k].required :
                         ToolCatalog[k].required[r] \notin DOMAIN arguments

\* C25: handling a submit_vista3d_point_task or submit_full_body_task call
\* that lacks a required argument writes nothing: the files are the ones that
\* were there, and the response is the error naming the argument as required.
C25_RejectedSubmitWritesNothing ==
    [][(pc = "handle" /\ pc' # pc /\ LacksRequired(request)) =>
           /\ pc' = "print"
           /\ files' = files
           /\ DOMAIN response' = {"jsonrpc", "id", "error"}
           /\ Contains(response'.error.message, "is required")]_vars

\* C25 witness: a submit call lacking an argument has been rejected after
\* another task was submitted
C25_Witness ==
    /\ pc = "print"
    /\ LacksRequired(request)
    /\ "error" \in DOMAIN response
    /\ PendingDocuments # {}

(***************************************************************************)
(* RobustMCPClient.  The child process is the server above; the lines a    *)
(* child can write besides responses are ChildNoise.                       *)
(***************************************************************************)
\* largest number of requests of a session, and largest timeout in seconds
MaxCalls == 2
MaxTimeout == 1
\* largest number of lines on the child's stdout that are no response
MaxNoise == 1

\* response.get("id") == self.request_id with every response taken as a match
MatchesAlways(resp, expected_id) == TRUE

\* response.get("id") == self.request_id
Matches(resp, expected_id) == Get(resp, "id", NoneId) = expected_id

\* an id taken again for every request after the first
ReusedId(id) == IF id = 0 THEN 1 ELSE id

\* self.request_id += 1
IncrementedId(id) == id + 1

\* the request of initialize()
InitializeCall ==
    [method |-> "initialize",
     params |-> [protocolVersion |-> "2024-11-05", capabilities |-> EmptyDict,
                 clientInfo |-> [name |-> "robust-mcp-client", version |-> "1.0.0"]]]

\* initialize() and call_tool(tool_name, arguments)
ClientCalls ==
    {InitializeCall,
     [method |-> "tools/call", params |-> [name |-> "no_such_tool", arguments |-> EmptyDict]],
     [method |-> "tools/call",
      params |-> [name |-> "submit_full_body_task", arguments |-> FullBodyArguments]]}

\* how a call ended
Ended(state, outcome) ==
    [state |-> state, request |-> call.request, frame |-> call.frame,
     skipped |-> call.skipped, outcome |-> outcome, child |-> process]

\* subprocess.Popen(..., stdout=PIPE, stderr=PIPE) and the two reader threads
start_server ==
    /\ process = "none"
    /\ process' = "running"
    /\ piped' = TRUE
    /\ UNCHANGED <<storeVars, queryVars, probeVars, serverVars, stderr, stderr_read, request_id,
                   output_queue, stdout_read, call>>

\* SIGTERM to the child's process group
stop_server ==
    /\ process = "running"
    /\ call.state # "waiting"
    /\ process' = "exited"
    /\ pc' = "stopped"
    /\ UNCHANGED <<storeVars, queryVars, probeVars, errVars, stdin, stdout, request, response, inbox, answered,
                   request_id, output_queue, stdout_read, call>>

\* _read_stdout: one line from the child's stdout to the queue, stripped
_read_stdout ==
    /\ process = "running"
    /\ stdout_read < Len(stdout)
    /\ output_queue' = Append(output_queue, stdout[stdout_read + 1])
    /\ stdout_read' = stdout_read + 1
    /\ UNCHANGED <<storeVars, queryVars, probeVars, errVars, serverVars, process, request_id, call>>

\* self.error_queue: the lines _read_stderr has taken
error_queue == SubSeq(stderr, 1, stderr_read)

\* one reader for both streams: it takes a line of stderr only when a line of
\* stdout is there to be taken
ReadStderrAfterStdout ==
    /\ process = "running"
    /\ stdout_read < Len(stdout)
    /\ stderr_read < Len(stderr)
    /\ stderr_read' = stderr_read + 1
    /\ UNCHANGED <<storeVars, queryVars, probeVars, serverVars, stderr, piped, clientVars>>

\* _read_stderr: one line from the child's stderr to the error queue
_read_stderr ==
    /\ process = "running"
    /\ stderr_read < Len(stderr)
    /\ stderr_read' = stderr_read + 1
    /\ UNCHANGED <<storeVars, queryVars, probeVars, serverVars, stderr, piped, clientVars>>

\* largest number of lines the child writes to its stderr on its own
MaxLogs == 2

\* the child writes a line to its stderr
ChildLogs ==
    /\ process = "running"
    /\ ~StderrFull
    /\ Len(stderr) < MaxLogs
    /\ stderr' = Append(stderr, LogLine("noise"))
    /\ UNCHANGED <<storeVars, queryVars, probeVars, serverVars, stderr_read, piped, clientVars>>

\* send_request up to the wait loop: the liveness test, the next id, the
\* request written to the child's stdin; sendable is whether json.dumps and the
\* write succeed
send_request_of(calls, timeouts) ==
    /\ call.state # "waiting"
    /\ request_id < MaxCalls
    /\ Len(inbox) < MaxCalls
    /\ \E c \in calls, timeout \in timeouts, sendable \in BOOLEAN :
         IF process # "running"
           THEN /\ call' = [state |-> "raised",
                            outcome |-> [type |-> "Exception",
                                         message |-> "Server process not running"],
                            child |-> process]
                /\ UNCHANGED <<request_id, stdin, inbox>>
         ELSE IF ~sendable
           THEN /\ request_id' = IncrementedId(request_id)
                /\ call' = [state |-> "raised",
                            outcome |-> [type |-> "Exception",
                                         message |-> "Failed to send request"],
                            child |-> process]
                /\ UNCHANGED <<stdin, inbox>>
           ELSE LET req == IF c.params # EmptyDict
                             THEN [jsonrpc |-> "2.0", method |-> c.method,
                                   id |-> IncrementedId(request_id), params |-> c.params]
                             ELSE [jsonrpc |-> "2.0", method |-> c.method,
                                   id |-> IncrementedId(request_id)]
                IN  /\ request_id' = IncrementedId(request_id)
                    /\ stdin' = Append(stdin, JsonLine(req))
                    /\ inbox' = Append(inbox, JsonLine(req))
                    /\ call' = [state |-> "waiting", request |-> req, frame |-> Len(inbox) + 1,
                                timeout |-> timeout, elapsed |-> 0, skipped |-> 0,
                                store |-> files]
    /\ UNCHANGED <<storeVars, queryVars, probeVars, errVars, stdout, pc, request, response, answered, process,
                   output_queue, stdout_read>>

\* send_request(method, params, timeout) of any caller
send_request == send_request_of(ClientCalls, 1..MaxTimeout)

\* initialize(): send_request with the default timeout
initialize == send_request_of({InitializeCall}, {MaxTimeout})

\* a queue whose get() puts a response to another request back at the end
GetKeepingOthers(q, expected_id) ==
    IF Head(q).kind = "obj" /\ ~Matches(Head(q).value, expected_id)
      THEN Append(Tail(q), Head(q))
      ELSE Tail(q)

\* self.output_queue.get(timeout=1): the queue once its first line is taken
AfterGet(q, expected_id) == Tail(q)

\* one turn of the wait loop in which output_queue.get(timeout=1) returns a
\* line; dt is the time the turn takes
send_request_get ==
    /\ call.state = "waiting"
    /\ call.elapsed < call.timeout
    /\ output_queue # <<>>
    /\ output_queue' = AfterGet(output_queue, request_id)
    /\ \E dt \in {0, 1} :
         LET line == Head(output_queue)
             waiting == [call EXCEPT !.elapsed = @ + dt]
         IN  call' =
               IF JSONDecodeError(line) THEN waiting
               ELSE IF line.kind = "deep"
                 THEN Ended("raised", [type |-> "RecursionError",
                                       message |-> "maximum recursion depth exceeded"])
               ELSE IF line.kind = "nonobj"
                 THEN Ended("raised", [type |-> "AttributeError",
                                       message |-> "object has no attribute 'get'"])
               ELSE IF Matches(line.value, request_id)
                 THEN IF "error" \in DOMAIN line.value
                        THEN Ended("raised", [type |-> "Exception",
                                              message |-> "Server error: "
                                                          \o line.value.error.message])
                        ELSE Ended("returned", line.value)
               ELSE [waiting EXCEPT !.skipped = @ + 1]
    /\ UNCHANGED <<storeVars, queryVars, probeVars, errVars, serverVars, process, request_id, stdout_read>>

\* one turn of the wait loop in which the queue stays empty for a second
send_request_empty ==
    /\ call.state = "waiting"
    /\ call.elapsed < call.timeout
    /\ output_queue = <<>>
    /\ call' = [call EXCEPT !.elapsed = @ + 1]
    /\ UNCHANGED <<storeVars, queryVars, probeVars, errVars, serverVars, process, request_id, output_queue,
                   stdout_read>>

\* the loop ends with no response returned
send_request_timeout ==
    /\ call.state = "waiting"
    /\ call.elapsed >= call.timeout
    /\ call' = Ended("raised", [type |-> "Exception",
                                message |-> "Request " \o call.request.method
                                            \o " timed out after " \o ToString(call.timeout)
                                            \o "s"])
    /\ UNCHANGED <<storeVars, queryVars, probeVars, errVars, serverVars, process, request_id, output_queue,
                   stdout_read>>

\* the child writes a line of one of the kinds to its stdout
ChildWrites(kinds) ==
    /\ process = "running"
    /\ ~StdoutFull
    /\ Cardinality({k \in DOMAIN answered : answered[k] = 0}) < MaxNoise
    /\ \E kind \in kinds :
         stdout' = Append(stdout, [kind |-> kind, value |-> EmptyDict])
    /\ answered' = Append(answered, 0)
    /\ UNCHANGED <<storeVars, queryVars, probeVars, errVars, stdin, pc, request, response, inbox, clientVars>>

\* the child writes a line to its stdout that is no response: text that is no
\* JSON, or a JSON value that is no object
ChildNoise == ChildWrites({"garbage", "nonobj"})

\* the child writes a line to its stdout that is no JSON: text, or nothing
ChildUnparseable == ChildWrites({"garbage", "blank"})

\* the program that holds the client writes a line that is no JSON to
\* client.process.stdin
RawWrite ==
    /\ process = "running"
    /\ Len(inbox) < MaxCalls
    /\ Cardinality({k \in DOMAIN inbox : inbox[k].kind # "obj"}) < MaxNoise
    /\ \E kind \in {"garbage", "blank"} :
         /\ stdin' = Append(stdin, [kind |-> kind, value |-> EmptyDict])
         /\ inbox' = Append(inbox, [kind |-> kind, value |-> EmptyDict])
    /\ UNCHANGED <<storeVars, queryVars, probeVars, errVars, stdout, pc, request, response, answered, clientVars>>

\* the caller's side of the client.  The stderr reader takes no step here: it
\* shares nothing with send_request, and the MaxCalls requests of a session
\* leave the child's stderr pipe below PipeCapacity (SpecReaders has both
\* readers).
NextClient ==
    \/ start_server \/ stop_server \/ _read_stdout
    \/ send_request \/ send_request_get \/ send_request_empty \/ send_request_timeout
    \/ ChildNoise \/ run_read \/ run_handle \/ run_print

SpecClient == InitServer /\ [][NextClient]_vars

\* the client and its child, with lines that are no JSON on both pipes
NextPipes ==
    \/ start_server \/ stop_server \/ _read_stdout
    \/ initialize \/ send_request_get \/ send_request_empty \/ send_request_timeout
    \/ ChildUnparseable \/ RawWrite \/ run_read \/ run_handle \/ run_print

SpecPipes == InitServer /\ [][NextPipes]_vars

\* the client's two reader threads, with a child that writes to both streams
\* on its own while calls come and go
NextReaders ==
    \/ start_server \/ stop_server \/ _read_stdout \/ _read_stderr
    \/ initialize \/ send_request_get \/ send_request_empty \/ send_request_timeout
    \/ ChildUnparseable \/ ChildLogs

\* each reader is a thread of its own that the scheduler runs again and again
ReadersFair == WF_vars(_read_stdout) /\ WF_vars(_read_stderr)

SpecReaders == InitServer /\ [][NextReaders]_vars /\ ReadersFair

\* the request of line i of the input, its id aside
RequestButId(i) == Without(inbox[i].value, "id")

\* the tools that write a document: their answers name a task id, which is
\* made of the time of the call
IsSubmit(req) ==
    /\ "params" \in DOMAIN req
    /\ req.params # Null
    /\ "name" \in DOMAIN req.params
    /\ req.params.name \in {"submit_vista3d_point_task", "submit_full_body_task"}

\* lines i and j of stdout answer two requests that differ in their ids at most
SameRequestTwice(i, j) ==
    /\ i < j
    /\ answered[i] # 0
    /\ answered[j] # 0
    /\ inbox[answered[i]].kind = "obj"
    /\ inbox[answered[j]].kind = "obj"
    /\ RequestButId(answered[i]) = RequestButId(answered[j])

\* a step in which run has handled an initialize or a tools/list request
HandlesStatic ==
    /\ pc = "handle"
    /\ pc' # pc
    /\ request.kind = "obj"
    /\ Get(request.value, "method", None) \in {"initialize", "tools/list"}

IsResponseFrame(line) ==
    /\ line.kind = "obj"
    /\ DOMAIN line.value \in {{"jsonrpc", "id", "result"}, {"jsonrpc", "id", "error"}}
    /\ line.value.jsonrpc = "2.0"

\* C30: while run is in its loop every line on stdout is one complete JSON
\* response frame, printed by run for a line it read; what the server logs
\* (requests, warnings, errors) is on stderr, so a client that reads stdout
\* line by line receives responses only
C30_StdoutCarriesOnlyResponses ==
    /\ \A i \in 1..Len(stdout) : IsResponseFrame(stdout[i]) /\ answered[i] # 0
    /\ \A i \in 1..Len(stderr) : stderr[i].kind = "log"

\* two requests were logged and answered, one with a result and one with an error
C30_Witness ==
    /\ Len(stdout) = 2
    /\ Len(stderr) = 2
    /\ pc = "read"
    /\ "result" \in DOMAIN stdout[1].value
    /\ "error" \in DOMAIN stdout[2].value

(***************************************************************************)
(* MCPClient and Vista3DCLI: the child's three streams are pipes, stdout   *)
(* is read one line per request and stderr is never read.                  *)
(***************************************************************************)
\* subprocess.Popen(..., stdin=PIPE, stdout=PIPE, stderr=PIPE)
MCPClient_start_server ==
    /\ process = "none"
    /\ process' = "running"
    /\ piped' = TRUE
    /\ UNCHANGED <<storeVars, queryVars, probeVars, serverVars, stderr, stderr_read, request_id,
                   output_queue, stdout_read, call>>

\* self.process.terminate()
MCPClient_stop_server ==
    /\ process = "running"
    /\ call.state # "waiting"
    /\ process' = "exited"
    /\ pc' = "stopped"
    /\ UNCHANGED <<storeVars, queryVars, probeVars, errVars, stdin, stdout, request, response, inbox,
                   answered, request_id, output_queue, stdout_read, call>>

\* send_request up to the read: the next id, the request written to the
\* child's stdin.  A session sends one request more than the stderr pipe
\* holds lines.
MCPClient_send_request ==
    /\ process = "running"
    /\ call.state # "waiting"
    /\ request_id <= PipeCapacity
    /\ \E c \in ClientCalls :
         LET req == [jsonrpc |-> "2.0", method |-> c.method,
                     id |-> IncrementedId(request_id), params |-> c.params]
         IN  /\ request_id' = IncrementedId(request_id)
             /\ stdin' = Append(stdin, JsonLine(req))
             /\ inbox' = Append(inbox, JsonLine(req))
             /\ call' = [state |-> "waiting", request |-> req]
    /\ UNCHANGED <<storeVars, queryVars, probeVars, errVars, stdout, pc, request, response, answered,
                   process, output_queue, stdout_read>>

\* response_line = self.process.stdout.readline() returns, and the rest of
\* send_request
MCPClient_readline ==
    /\ process = "running"
    /\ call.state = "waiting"
    /\ stdout_read < Len(stdout)
    /\ stdout_read' = stdout_read + 1
    /\ LET line == stdout[stdout_read + 1]
       IN  call' = IF line.kind # "obj"
                     THEN [state |-> "raised", request |-> call.request,
                           outcome |-> [type |-> "JSONDecodeError", message |-> ""]]
                   ELSE IF "error" \in DOMAIN line.value
                     THEN [state |-> "raised", request |-> call.request,
                           outcome |-> [type |-> "Exception",
                                        message |-> "Server error: "
                                                    \o line.value.error.message]]
                   ELSE [state |-> "returned", request |-> call.request,
                         outcome |-> line.value]
    /\ UNCHANGED <<storeVars, queryVars, probeVars, serverVars, errVars, process, request_id,
                   output_queue>>

NextPlain ==
    \/ MCPClient_start_server \/ MCPClient_stop_server
    \/ MCPClient_send_request \/ MCPClient_readline
    \/ run_read \/ run_handle \/ run_print

\* the server and the client are processes that run whenever they can
PlainFair ==
    /\ WF_vars(run_read) /\ WF_vars(run_handle) /\ WF_vars(run_print)
    /\ WF_vars(MCPClient_readline)

SpecPlain == InitServer /\ [][NextPlain]_vars /\ PlainFair

(***************************************************************************)
(* Claims about MCPClient and Vista3DCLI (SpecPlain).                      *)
(***************************************************************************)
\* C26: with the stderr pipe never read, every send_request that waits for
\* its response eventually stops waiting.
C26_EveryRequestReturns == (call.state = "waiting") ~> (call.state # "waiting")

(***************************************************************************)
(* Claims about RobustMCPClient (SpecClient).                              *)
(***************************************************************************)
\* C1: a call that returns normally returns a response whose id is the id of
\* the request this call sent, and that response is the one the server printed
\* while serving this call's request, also when late responses to earlier calls
\* were still in the queue.
C1_ReturnsOwnResponse ==
    call.state = "returned" =>
        /\ Get(call.outcome, "id", NoneId) = call.request.id
        /\ \E k \in AnswersTo(call.frame) : stdout[k] = JsonLine(call.outcome)

\* C1 witness: a call returned its response after discarding the late response
\* to an earlier call that had timed out
C1_Witness ==
    /\ call.state = "returned"
    /\ call.skipped > 0
    /\ call.request.id = 2

\* C4: a call that dequeues no response with its own id before the timeout ends
\* with the timeout failure, whatever lines the queue delivers, never waits past
\* the timeout, and leaves the child running.
C4_TimeoutWhenNoMatch ==
    /\ call.state = "waiting" => (call.elapsed <= call.timeout /\ process = "running")
    /\ (call.state = "raised" /\ "request" \in DOMAIN call
            /\ ~Contains(call.outcome.message, "Server error")) =>
           /\ Contains(call.outcome.message, "timed out")
           /\ call.child = "running"

\* the ids of the requests written to the child's stdin, in the order written
SentIds == [k \in DOMAIN inbox |-> inbox[k].value.id]

ServerDrops ==
    /\ pc = "read" /\ stdin # <<>>
    /\ Head(stdin).kind \in {"garbage", "blank"}
    /\ stdin' = Tail(stdin)

\* the wait loop of send_request takes a line that is no JSON from the queue
ClientDrops ==
    /\ call.state = "waiting" /\ output_queue # <<>>
    /\ Head(output_queue).kind \in {"garbage", "blank"}
    /\ output_queue' = Tail(output_queue)

TimesOut ==
    /\ call.state = "waiting"
    /\ call'.state = "raised"
    /\ Contains(call'.outcome.message, "timed out")

\* C19: when a call ends in the timeout failure, the task documents are the
\* ones that were there when the call was issued, whatever tool it named.
C19_TimeoutLeavesStoreUnchanged ==
    [][TimesOut => files' = call.store]_vars

(***************************************************************************)
(* Claims about the reader threads (SpecReaders).                          *)
(***************************************************************************)
ChildRuns == process = "running"

Dequeued == stdout_read - Len(output_queue)

\* the wait loop takes a parsed response whose id is not the awaited one
Discards ==
    /\ call.state = "waiting" /\ call.elapsed < call.timeout
    /\ output_queue # <<>>
    /\ Head(output_queue).kind = "obj"
    /\ ~Matches(Head(output_queue).value, request_id)
    /\ call' # call

\* C23: a parsed response whose id is not the awaited one is removed from
\* output_queue and kept nowhere: the call goes on waiting with nothing but
\* its clock and its count of skipped lines changed, the queue always is the
\* part of stdout not yet dequeued, and a call that returns returns the line
\* it dequeued last, so no call is handed a response dequeued earlier.
C23_MismatchedResponseDiscarded ==
    /\ [][Discards =>
             /\ output_queue' = Tail(output_queue)
             /\ call'.state = "waiting"
             /\ [call' EXCEPT !.elapsed = call.elapsed, !.skipped = call.skipped] = call
             /\ call'.skipped = call.skipped + 1
             /\ UNCHANGED <<request_id, process, stdout_read>>]_vars
    /\ [](/\ Dequeued >= 0
          /\ output_queue = SubSeq(stdout, Dequeued + 1, stdout_read)
          /\ call.state = "returned" => stdout[Dequeued] = JsonLine(call.outcome))

\* C23 witness: the second call waits, having taken from the queue the late
\* response to the first call, which had timed out
C23_Witness ==
    /\ call.state = "waiting"
    /\ request_id = 2
    /\ call.skipped = 1
    /\ output_queue = <<>>
    /\ Dequeued = 1
    /\ stdout[1].kind = "obj" /\ stdout[1].value.id = 1


(***************************************************************************)
(* SpecProbe: check_task_status taken one filesystem access at a time,     *)
(* both the server's method and the function of task_helpers, while the    *)
(* daemon renames documents from the pending to the processed location     *)
(* and writes result documents whole.                                      *)
(***************************************************************************)
Implementations == {"server", "task_helpers"}

\* task_helpers: folder_path = Path(base_path) / task_folder, task_folder "Vista3D"
folder_path == "tasks-live/Vista3D"

PendingFile(impl, task_id) ==
    IF impl = "server" THEN PathJoin(vista3d_tasks_path, task_id \o ".tsk")
    ELSE PathJoin(folder_path, task_id \o ".json")

ProcessedFile(impl, task_id) ==
    IF impl = "server" THEN PathJoin(vista3d_processed_path, task_id \o ".json")
    ELSE PathJoin(PathJoin(folder_path, "processed"), task_id \o ".json")

ResultFile(impl, task_id) ==
    IF impl = "server" THEN PathJoin(vista3d_processed_path, task_id \o "_result.json")
    ELSE PathJoin(PathJoin(folder_path, "processed"), task_id \o "_result.json")

FailedFile(task_id) == PathJoin(PathJoin(folder_path, "failed"), task_id \o ".json")

\* task_helpers.create_vista3d_point_task with a generated id and no additional points
create_vista3d_point_task(input_file, output_directory, point_coordinates, point_type, clock) ==
    [task_id |-> generate_task_id("vista3d_point", clock),
     input_file |-> input_file,
     output_directory |-> output_directory,
     segmentation_type |-> "point",
     point_coordinates |-> point_coordinates,
     point_type |-> point_type,
     label |-> 1]

\* task_helpers.submit_task(task, "Vista3D"): writes <folder_path>/<task_id>.json
helpers_submit_task(task, fs) ==
    SetKey(fs, PathJoin(folder_path, task.task_id \o ".json"), JsonLine(task))

PointIds == {generate_task_id("vista3d_point", t) : t \in 0..MaxClock}
ProbeIds == PointIds \cup {OldProcessedId}

\* the status dict each implementation starts in its processed branch
ProcessedStart(impl, task_id) ==
    IF impl = "server" THEN ProcessedStatusWithoutSidecar(task_id, files)
    ELSE [status |-> "processed", file |-> ProcessedFile(impl, task_id)]

Probing == probe.state \notin {"idle", "returned"}

ProbeReturns(value) ==
    probe' = [state |-> "returned", impl |-> probe.impl, task_id |-> probe.task_id,
              known |-> probe.known, moved |-> probe.moved, raised |-> FALSE, value |-> value]

ProbeRaises(error) ==
    probe' = [state |-> "returned", impl |-> probe.impl, task_id |-> probe.task_id,
              known |-> probe.known, moved |-> probe.moved, raised |-> TRUE, value |-> error]

ProbeGoes(state) ==
    probe' = [state |-> state, impl |-> probe.impl, task_id |-> probe.task_id,
              known |-> probe.known, moved |-> probe.moved]

\* a point task is created and submitted, through the server or through
\* task_helpers; the millisecond of its id is one no earlier task of that
\* implementation was given
ProbeSubmit ==
    \E impl \in Implementations, t \in now..MaxClock :
        /\ ~Exists(files, PendingFile(impl, generate_task_id("vista3d_point", t)))
        /\ ~Exists(files, ProcessedFile(impl, generate_task_id("vista3d_point", t)))
        /\ now' = t
        /\ files' = IF impl = "server"
                      THEN submit_task(create_vista3d_task(<<100, 100, 50>>, "in.nii.gz", "out",
                                                           "positive", <<>>, None, None, t),
                                       files, TRUE).files
                      ELSE helpers_submit_task(
                               create_vista3d_point_task("in.nii.gz", "out", <<100, 100, 50>>,
                                                         "positive", t), files)
        /\ UNCHANGED <<ret, submitted, daemon, queryVars, probeVars, serverVars, errVars,
                       clientVars>>

\* check_task_status is called; known records whether the task's document is
\* in the pending location (1), the processed location (2) or neither (0)
ProbeCall ==
    \E impl \in Implementations, task_id \in ProbeIds :
        /\ ~Probing
        /\ probe' = [state |-> "pending_file.exists", impl |-> impl, task_id |-> task_id,
                     known |-> IF Exists(files, PendingFile(impl, task_id)) THEN 1
                               ELSE IF Exists(files, ProcessedFile(impl, task_id)) THEN 2
                               ELSE 0,
                     moved |-> FALSE]
        /\ UNCHANGED <<storeVars, queryVars, serverVars, errVars, clientVars>>

\* a first probe that gives the task up when it is not pending
ProbePendingOnly ==
    /\ probe.state = "pending_file.exists"
    /\ IF Exists(files, PendingFile(probe.impl, probe.task_id))
         THEN ProbeReturns(check_task_status(probe.task_id, files))
         ELSE ProbeReturns([status |-> "not_found"])
    /\ UNCHANGED <<storeVars, queryVars, serverVars, errVars, clientVars>>

\* if pending_file.exists(): return pending
ProbePending ==
    /\ probe.state = "pending_file.exists"
    /\ IF Exists(files, PendingFile(probe.impl, probe.task_id))
         THEN ProbeReturns(IF probe.impl = "server"
                             THEN check_task_status(probe.task_id, files)
                             ELSE [status |-> "pending",
                                   file |-> PendingFile(probe.impl, probe.task_id)])
         ELSE ProbeGoes("processed_file.exists")
    /\ UNCHANGED <<storeVars, queryVars, serverVars, errVars, clientVars>>

\* if processed_file.exists(): ...; otherwise the server's method returns
\* not_found and the function of task_helpers goes on to the failed folder
ProbeProcessed ==
    /\ probe.state = "processed_file.exists"
    /\ IF Exists(files, ProcessedFile(probe.impl, probe.task_id))
         THEN ProbeGoes("result_file.exists")
         ELSE IF probe.impl = "server"
           THEN ProbeReturns(check_task_status(probe.task_id, files))
           ELSE ProbeGoes("failed_file.exists")
    /\ UNCHANGED <<storeVars, queryVars, serverVars, errVars, clientVars>>

\* if result_file.exists(): ...; otherwise the status without a result
ProbeResult ==
    /\ probe.state = "result_file.exists"
    /\ IF Exists(files, ResultFile(probe.impl, probe.task_id))
         THEN ProbeGoes("open")
         ELSE ProbeReturns(ProcessedStart(probe.impl, probe.task_id))
    /\ UNCHANGED <<storeVars, queryVars, serverVars, errVars, clientVars>>

\* with open(result_file) ... json.load(f): the server's method keeps what
\* goes wrong as result_error, the function of task_helpers lets it propagate
ProbeOpen ==
    /\ probe.state = "open"
    /\ LET result_file == ResultFile(probe.impl, probe.task_id)
           status == ProcessedStart(probe.impl, probe.task_id)
       IN  IF probe.impl = "server"
             THEN IF Exists(files, result_file)
                    THEN ProbeReturns(ProcessedStatus(probe.task_id, files))
                    ELSE ProbeReturns(SetKey(status, "result_error", "FileNotFoundError"))
           ELSE IF ~Exists(files, result_file) THEN ProbeRaises("FileNotFoundError")
           ELSE IF files[result_file].kind \in {"obj", "nonobj"}
             THEN ProbeReturns(SetKey(status, "result", files[result_file].value))
           ELSE ProbeRaises("JSONDecodeError")
    /\ UNCHANGED <<storeVars, queryVars, serverVars, errVars, clientVars>>

\* task_helpers only: if failed_file.exists(): failed, otherwise not_found
ProbeFailed ==
    /\ probe.state = "failed_file.exists"
    /\ IF Exists(files, FailedFile(probe.task_id))
         THEN ProbeReturns([status |-> "failed", file |-> FailedFile(probe.task_id)])
         ELSE ProbeReturns([status |-> "not_found"])
    /\ UNCHANGED <<storeVars, queryVars, serverVars, errVars, clientVars>>

\* the daemon renames a pending document into the processed location: one
\* step, the document is in one of the two places at every instant
DaemonMove ==
    \E impl \in Implementations, task_id \in PointIds :
        /\ Exists(files, PendingFile(impl, task_id))
        /\ files' = SetKey(Remove(files, PendingFile(impl, task_id)),
                           ProcessedFile(impl, task_id), files[PendingFile(impl, task_id)])
        /\ probe' = IF Probing /\ probe.impl = impl /\ probe.task_id = task_id
                      THEN [probe EXCEPT !.moved = TRUE]
                      ELSE probe
        /\ UNCHANGED <<now, ret, submitted, daemon, queryVars, serverVars, errVars, clientVars>>

\* the daemon puts the result document of a processed task in place, whole
DaemonPutsResult ==
    \E impl \in Implementations, task_id \in PointIds :
        /\ Exists(files, ProcessedFile(impl, task_id))
        /\ ~Exists(files, ResultFile(impl, task_id))
        /\ files' = SetKey(files, ResultFile(impl, task_id), JsonLine([output_mask |-> "mask.nii.gz"]))
        /\ UNCHANGED <<now, ret, submitted, daemon, queryVars, probeVars, serverVars, errVars,
                       clientVars>>

NextProbe ==
    \/ ProbeSubmit \/ ProbeCall \/ ProbePending \/ ProbeProcessed \/ ProbeResult
    \/ ProbeOpen \/ ProbeFailed \/ DaemonMove \/ DaemonPutsResult

SpecProbe == Init /\ [][NextProbe]_vars

\* C27: when the daemon moves a task's document from the pending to the
\* processed location in one atomic step, a check_task_status call on a task
\* whose document was in one of the two locations when the call began returns
\* pending or processed, never not_found, however its existence probes
\* interleave with the move
C27_ConcurrentMoveNeverNotFound ==
    (probe.state = "returned" /\ probe.known # 0) =>
        /\ ~probe.raised
        /\ probe.value.status \in {"pending", "processed"}

\* a call that began while the document was pending, saw the daemon move it
\* before the first probe looked, and returned processed
C27_Witness ==
    /\ probe.state = "returned"
    /\ probe.known = 1
    /\ probe.moved
    /\ ~probe.raised
    /\ probe.value.status = "processed"


(***************************************************************************)
(* SpecPoints: create_vista3d_task applied to the point types and the      *)
(* lists of additional points a caller can pass; the handler of            *)
(* submit_vista3d_point_task hands both over as they arrive.               *)
(***************************************************************************)
\* the longest list of additional points
MaxPoints == 2

\* the values of point_type and of a point's "type": the two of the tool's
\* schema, and one the schema does not list
PointTypes == {"positive", "negative", "neutral"}
Coordinates == {<<100, 100, 50>>, <<1, 2, 3>>}
AdditionalPoints == [type : PointTypes, coordinates : Coordinates]
PointLists == UNION {[1..n -> AdditionalPoints] : n \in 0..MaxPoints}

InitPoints ==
    /\ files = EmptyDict
    /\ now = 0
    /\ ret \in [op : {"create_vista3d_task"}, point_coordinates : {<<100, 100, 50>>},
                 point_type : PointTypes, additional_points : PointLists, returned : {FALSE}]
    /\ submitted = NoSubmit
    /\ daemon = 0
    /\ probe = NoProbe
    /\ query = NoQuery
    /\ ServerAtStart
    /\ ClientAtStart

CreateTask ==
    /\ ret.op = "create_vista3d_task"
    /\ ~ret.returned
    /\ ret' = [op |-> "create_vista3d_task", point_coordinates |-> ret.point_coordinates,
               point_type |-> ret.point_type, additional_points |-> ret.additional_points,
               returned |-> TRUE,
               value |-> create_vista3d_task(ret.point_coordinates, "in.nii.gz", "out",
                                             ret.point_type, ret.additional_points,
                                             None, None, now)]
    /\ UNCHANGED <<files, now, submitted, daemon, queryVars, probeVars, serverVars, errVars,
                   clientVars>>

NextPoints == CreateTask

SpecPoints == InitPoints /\ [][NextPoints]_vars

\* the points handed to the call, the primary point first
Supplied ==
    <<[type |-> ret.point_type, coordinates |-> ret.point_coordinates]>> \o ret.additional_points

\* the coordinates of the supplied points of one type, in the order given
SuppliedOfType(type) ==
    LET chosen == SelectSeq(Supplied, LAMBDA point : point.type = type)
    IN  [i \in 1..Len(chosen) |-> chosen[i].coordinates]

\* C28: create_vista3d_task loses no supplied point: whatever point_type and
\* additional_points are, the task has a single prompt, each supplied point is
\* in exactly one of its positive_points and negative_points, the primary
\* point first in its list and the additional points after it in the order given
C28_NoSuppliedPointLost ==
    (ret.op = "create_vista3d_task" /\ ret.returned) =>
        LET prompts == ret.value.segmentation_prompts
        IN  /\ Len(prompts) = 1
            /\ Len(prompts[1].positive_points) + Len(prompts[1].negative_points) = Len(Supplied)
            /\ SuppliedOfType("positive") = SubSeq(prompts[1].positive_points, 1,
                                                   Len(SuppliedOfType("positive")))
            /\ SuppliedOfType("negative") = SubSeq(prompts[1].negative_points, 1,
                                                   Len(SuppliedOfType("negative")))

=============================================================================
